---- MODULE Spec2Model ----
(***************************************************************************)
(* Model of the healing loop of app/agents/orchestrator.py                 *)
(* (Orchestrator.run) together with the collaborators it drives:           *)
(* FixAgent.fix, GitAgent.apply_fix / push, CIMonitor.poll_status and      *)
(* ResultsWriter.write_results.  One action per segment of run() between   *)
(* two external calls; the outcome of every external call is an input      *)
(* drawn with \E.                                                          *)
(***************************************************************************)
EXTENDS Integers, Sequences, FiniteSets, TLC

(* ------------------------------------------------------------------ *)
(* Configuration (app/core/config.py reads these from the environment) *)
(* ------------------------------------------------------------------ *)
RUN_RETRY_LIMIT == 2
PER_BUG_RETRY_LIMIT == 1
MAX_COMMITS_PER_RUN == 2

(* Guardrail thresholds, seconds (orchestrator.py:65-67) *)
_GUARDRAIL_REDUCED == 180
_GUARDRAIL_CRITICAL == 240
_GUARDRAIL_ABORT == 290

(* Fix history caps (orchestrator.py:72-73) *)
_FP_CAP_PER_BUG == 5
_FP_CAP_GLOBAL == 200

_ROOT_BUG_TYPES == {"SYNTAX", "IMPORT"}

(* Elapsed-time values the clock may show: normal, critical, abort. *)
TimePoints == {0, 240, 290}

(* ------------------------------------------------------------------ *)
(* Bug reports and patches the collaborators may produce               *)
(* ------------------------------------------------------------------ *)
SyntaxBug ==
    [bug_type |-> "SYNTAX", sub_type |-> "invalid_syntax",
     file_path |-> "main.py", line_number |-> 5]
LintBug ==
    [bug_type |-> "LINTING", sub_type |-> "unused_import",
     file_path |-> "utils.py", line_number |-> 20]
BugPool == {SyntaxBug, LintBug}

(* Patch contents the generator may return for one bug, numbered in the
   order in which it first proposes them. *)
MaxPatches == 2
Patches == 1..MaxPatches

(* Duplicate-free sequences over a set: what the detectors return after
   their own de-duplication and the orchestrator's key-based merge. *)
RECURSIVE Perms(_)
Perms(S) ==
    IF S = {} THEN {<<>>}
    ELSE UNION {{<<x>> \o p : p \in Perms(S \ {x})} : x \in S}
BugLists == UNION {Perms(S) : S \in SUBSET BugPool}

Range(s) == {s[k] : k \in 1..Len(s)}

(* ------------------------------------------------------------------ *)
(* Pure helpers                                                        *)
(* ------------------------------------------------------------------ *)
BUG_TYPE_PRIORITY ==
    [t \in {"SYNTAX", "IMPORT", "TYPE_ERROR", "INDENTATION", "LOGIC", "LINTING"} |->
        CASE t = "SYNTAX" -> 0
          [] t = "IMPORT" -> 1
          [] t = "TYPE_ERROR" -> 2
          [] t = "INDENTATION" -> 3
          [] t = "LOGIC" -> 4
          [] t = "LINTING" -> 5]

priority_of(bug_type) ==
    IF bug_type \in DOMAIN BUG_TYPE_PRIORITY THEN BUG_TYPE_PRIORITY[bug_type] ELSE 99

(* sha256 of "file:line:sub_type": injective on the triple. *)
generate_bug_signature(bug) == <<bug.file_path, bug.line_number, bug.sub_type>>

(* sha256 of "bug_sig:patch_hash": injective on the pair. *)
generate_fix_fingerprint(bug, patch) == <<generate_bug_signature(bug), patch>>

_get_performance_hint(elapsed) ==
    IF elapsed >= _GUARDRAIL_CRITICAL THEN "critical"
    ELSE IF elapsed >= _GUARDRAIL_REDUCED THEN "reduced"
    ELSE "normal"

(* sorted(bugs, key=priority_of): stable insertion sort. *)
RECURSIVE InsertByPriority(_, _)
InsertByPriority(b, s) ==
    IF s = <<>> THEN <<b>>
    ELSE IF priority_of(s[Len(s)].bug_type) <= priority_of(b.bug_type)
         THEN Append(s, b)
         ELSE Append(InsertByPriority(b, SubSeq(s, 1, Len(s) - 1)), s[Len(s)])

RECURSIVE _sort_bugs_by_priority(_)
_sort_bugs_by_priority(bugs) ==
    IF bugs = <<>> THEN <<>>
    ELSE InsertByPriority(bugs[Len(bugs)],
                          _sort_bugs_by_priority(SubSeq(bugs, 1, Len(bugs) - 1)))

Take(s, n) == SubSeq(s, 1, IF Len(s) < n THEN Len(s) ELSE n)

(* Performance-aware batch limits (orchestrator.py:530-536). *)
BatchLimit(bugs, hint, remaining) ==
    IF hint = "critical" \/ remaining < 60 THEN Take(bugs, 1)
    ELSE IF hint = "reduced" THEN Take(bugs, 3)
    ELSE bugs

SigSet(bugs) == {generate_bug_signature(bugs[k]) : k \in 1..Len(bugs)}

(* Scores are kept in tenths: 10 = 1.0, 5 = 0.5, 0 = 0.0, -1 = not scored.
   A scoring that gives partial credit to a bug left unchanged: *)
_score_partial_credit(sig, pre_sigs, post_sigs) ==
    IF sig \notin post_sigs /\ sig \in pre_sigs THEN 10 ELSE 5

(* _score_effectiveness: resolved, unchanged, drifted. *)
_score_effectiveness(sig, pre_sigs, post_sigs) ==
    IF sig \notin post_sigs /\ sig \in pre_sigs THEN 10
    ELSE IF sig \in post_sigs /\ sig \in pre_sigs THEN 0
    ELSE 5

_has_root_failures(bugs) ==
    \E k \in 1..Len(bugs) : bugs[k].bug_type \in _ROOT_BUG_TYPES

_fix_targets_root(fix) == fix.bug_report.bug_type \in _ROOT_BUG_TYPES

(* ------------------------------------------------------------------ *)
(* _FixHistoryStore                                                    *)
(* ------------------------------------------------------------------ *)
(* _FixHistoryStore(per_bug_cap, global_cap) *)
NewHistory(per_bug_cap, global_cap) ==
    [store |-> <<>>, order |-> <<>>,
     per_bug_cap |-> per_bug_cap, global_cap |-> global_cap]

EmptyHistory == NewHistory(_FP_CAP_PER_BUG, _FP_CAP_GLOBAL)

(* _store is kept as a sequence of [sig, fps] entries in insertion order. *)
HistoryHas(h, sig) == \E k \in 1..Len(h.store) : h.store[k].sig = sig

get_fingerprints(h, sig) ==
    IF HistoryHas(h, sig)
    THEN Range((CHOOSE e \in Range(h.store) : e.sig = sig).fps)
    ELSE {}

(* tracked_signatures *)
tracked_signatures(h) == Len(h.store)

(* Mutant: a deque without maxlen. *)
DequeAppend_Unbounded(dq, x, maxlen) == Append(dq, x)

(* deque(maxlen=...).append *)
DequeAppend(dq, x, maxlen) ==
    IF Len(dq) >= maxlen THEN Append(Tail(dq), x) ELSE Append(dq, x)

(* Mutant: eviction only once the cap is exceeded. *)
Evicts_Late(h, sig) == ~HistoryHas(h, sig) /\ Len(h.order) > h.global_cap

(* `if bug_sig not in self._store` and `len(self._order) >= self._global_cap` *)
Evicts(h, sig) == ~HistoryHas(h, sig) /\ Len(h.order) >= h.global_cap

HistoryAdd(h, sig, fp) ==
    LET evict == Evicts(h, sig)
        evicted == IF evict THEN h.order[1] ELSE <<>>
        order1 == IF evict THEN Tail(h.order) ELSE h.order
        store1 == IF evict
                  THEN SelectSeq(h.store, LAMBDA e : e.sig # evicted)
                  ELSE h.store
        order2 == IF HistoryHas(h, sig) THEN order1 ELSE Append(order1, sig)
        store2 == IF HistoryHas(h, sig) THEN store1
                  ELSE Append(store1, [sig |-> sig, fps |-> <<>>])
    IN [h EXCEPT
          !.order = order2,
          !.store = [k \in 1..Len(store2) |->
                       IF store2[k].sig = sig
                       THEN [sig |-> sig,
                             fps |-> DequeAppend(store2[k].fps, fp, h.per_bug_cap)]
                       ELSE store2[k]]]

(* ------------------------------------------------------------------ *)
(* FixAgent.fix: the acceptance pipeline around the LLM call           *)
(* ------------------------------------------------------------------ *)
MERGE_CONFLICT == "MERGE_CONFLICT"
OUT_OF_SCOPE == "OUT_OF_SCOPE"
LLM_FAILURE == "LLM_FAILURE"
INVALID_RESPONSE == "INVALID_RESPONSE"
DIFF_TOO_LARGE == "DIFF_TOO_LARGE"
LOCALITY_VIOLATION == "LOCALITY_VIOLATION"
REPEATED_FIX == "REPEATED_FIX"
LOW_CONFIDENCE == "LOW_CONFIDENCE"

ALL_ESCALATION_REASONS ==
    {DIFF_TOO_LARGE, LOW_CONFIDENCE, OUT_OF_SCOPE, LOCALITY_VIOLATION,
     INVALID_RESPONSE, REPEATED_FIX, MERGE_CONFLICT, LLM_FAILURE}

FixResult(bug, success, fp, reason) ==
    [bug_report |-> bug, success |-> success, patch_fingerprint |-> fp,
     patched_content |-> reason \in {"", LOW_CONFIDENCE, REPEATED_FIX,
                                     DIFF_TOO_LARGE, LOCALITY_VIOLATION},
     escalation_reason |-> reason, effectiveness_score |-> -1]

(* Default of FixAgent.__init__, used by the API layer's FixAgent().
   Confidence scores are kept in tenths. *)
confidence_threshold == 0
Confidences == {5, 9}

(* Thresholds a FixAgent is built with: the default and the documented 0.6. *)
Thresholds == {confidence_threshold, 6}

(* What one call of FixAgent.fix meets: the file it is given, the answer of
   client.call_with_fallback and the verdicts of the two safety checks on
   the diff of that answer. *)
LLMOutcomes == {"raise", "failed", "invalid", "ok"}

(* A call that got no usable answer has no patch, diff or confidence:
   those fields then hold a filler value. *)
FixInputs ==
    {i \in [conflict_markers : BOOLEAN, in_scope : BOOLEAN, llm : LLMOutcomes,
            diff_size_ok : BOOLEAN, locality_ok : BOOLEAN,
            patch : Patches, confidence : Confidences] :
        i.llm # "ok" => (i.diff_size_ok /\ i.locality_ok /\ i.patch = 1
                           /\ i.confidence = 9)}

(* Inputs that differ only in fields fix() never reads give the same
   result; the loop model draws one input per class. *)
CanonicalInput(inp) ==
    LET read_llm == ~inp.conflict_markers /\ inp.in_scope
        read_diff == read_llm /\ inp.llm = "ok"
        read_locality == read_diff /\ inp.diff_size_ok
        read_patch == read_locality /\ inp.locality_ok
    IN  /\ inp.conflict_markers => inp.in_scope
        /\ ~read_llm => inp.llm = "ok"
        /\ ~read_diff => inp.diff_size_ok
        /\ ~read_locality => inp.locality_ok
        /\ ~read_patch => (inp.patch = 1 /\ inp.confidence = 9)

(* Mutant: a rejection that forgets its reason. *)
Rejected_NoReason(bug, reason, fp, seen, llm_calls) ==
    [result |-> FixResult(bug, FALSE, fp, ""), seen |-> seen,
     llm_calls |-> llm_calls]

Rejected(bug, reason, fp, seen, llm_calls) ==
    [result |-> FixResult(bug, FALSE, fp, reason), seen |-> seen,
     llm_calls |-> llm_calls]

(* Mutant: scope is looked at before the conflict markers. *)
PreLLMCheck_ScopeFirst(inp) ==
    IF ~inp.in_scope THEN OUT_OF_SCOPE
    ELSE IF inp.conflict_markers THEN MERGE_CONFLICT
    ELSE ""

(* Steps 2-3: the checks made before any prompt is built. *)
PreLLMCheck(inp) ==
    IF inp.conflict_markers THEN MERGE_CONFLICT
    ELSE IF ~inp.in_scope THEN OUT_OF_SCOPE
    ELSE ""

(* Steps 7-8: the call and the response check. *)
LLMCheck(inp) ==
    IF inp.llm = "raise" THEN LLM_FAILURE
    ELSE IF inp.llm = "invalid" THEN INVALID_RESPONSE
    ELSE IF inp.llm = "failed" THEN LLM_FAILURE
    ELSE ""

(* Mutant: repeat detection forgotten. *)
PatchCheck_NoRepeat(inp, is_repeat) ==
    IF ~inp.diff_size_ok THEN DIFF_TOO_LARGE
    ELSE IF ~inp.locality_ok THEN LOCALITY_VIOLATION
    ELSE ""

(* Steps 10-12: diff size, locality, repeat detection. *)
PatchCheck(inp, is_repeat) ==
    IF ~inp.diff_size_ok THEN DIFF_TOO_LARGE
    ELSE IF ~inp.locality_ok THEN LOCALITY_VIOLATION
    ELSE IF is_repeat THEN REPEATED_FIX
    ELSE ""

(* Returns the FixResult, the agent's _seen_fingerprints afterwards and the
   number of client.call_with_fallback calls made. *)
fix(bug, inp, seen, threshold) ==
    LET fingerprint == generate_fix_fingerprint(bug, inp.patch)
        is_repeat == fingerprint \in seen
        below_threshold == inp.confidence < threshold
    IN  IF PreLLMCheck(inp) # ""
        THEN Rejected(bug, PreLLMCheck(inp), <<>>, seen, 0)
        ELSE IF LLMCheck(inp) # ""
        THEN Rejected(bug, LLMCheck(inp), <<>>, seen, 1)
        ELSE IF PatchCheck(inp, is_repeat) \in {DIFF_TOO_LARGE, LOCALITY_VIOLATION}
        THEN Rejected(bug, PatchCheck(inp, is_repeat), <<>>, seen, 1)
        ELSE IF PatchCheck(inp, is_repeat) # ""
        THEN Rejected(bug, PatchCheck(inp, is_repeat), fingerprint,
                      seen \cup {fingerprint}, 1)
        ELSE [result |-> FixResult(bug, ~below_threshold, fingerprint,
                                   IF below_threshold THEN LOW_CONFIDENCE ELSE ""),
              seen |-> seen \cup {fingerprint},
              llm_calls |-> 1]

(* clear_fingerprints *)
clear_fingerprints(seen) == {}

(* How many distinct patches the agent has fingerprinted for this bug. *)
Proposed(bug, seen) ==
    Cardinality({p \in Patches : generate_fix_fingerprint(bug, p) \in seen})

(* ------------------------------------------------------------------ *)
(* GitAgent                                                            *)
(* ------------------------------------------------------------------ *)
(* Names are sequences of one-character strings. *)
UpperLetters ==
    <<"A", "B", "C", "D", "E", "F", "G", "H", "I", "J", "K", "L", "M",
      "N", "O", "P", "Q", "R", "S", "T", "U", "V", "W", "X", "Y", "Z">>
LowerLetters ==
    <<"a", "b", "c", "d", "e", "f", "g", "h", "i", "j", "k", "l", "m",
      "n", "o", "p", "q", "r", "s", "t", "u", "v", "w", "x", "y", "z">>
Digits == {"0", "1", "2", "3", "4", "5", "6", "7", "8", "9"}

(* str.lower() *)
lower(name) ==
    [k \in 1..Len(name) |->
        IF \E j \in 1..26 : UpperLetters[j] = name[k]
        THEN LowerLetters[CHOOSE j \in 1..26 : UpperLetters[j] = name[k]]
        ELSE name[k]]

(* str.upper() *)
upper(name) ==
    [k \in 1..Len(name) |->
        IF \E j \in 1..26 : LowerLetters[j] = name[k]
        THEN UpperLetters[CHOOSE j \in 1..26 : LowerLetters[j] = name[k]]
        ELSE name[k]]

AI_Fix == <<"A", "I", "_", "F", "i", "x">>

(* re.match(r"^[A-Z0-9_]+_AI_Fix$", name) *)
validate_branch_name(name) ==
    LET n == Len(name) - 7
    IN  /\ n >= 1
        /\ SubSeq(name, n + 1, Len(name)) = <<"_">> \o AI_Fix
        /\ \A k \in 1..n : name[k] \in Range(UpperLetters) \cup Digits \cup {"_"}

(* clean() of generate_branch_name: upper, whitespace to "_", drop what is
   not [A-Z0-9_], collapse runs of "_", strip "_" at both ends. *)
RECURSIVE Collapse(_)
Collapse(name) ==
    IF Len(name) < 2 THEN name
    ELSE IF name[1] = "_" /\ name[2] = "_" THEN Collapse(Tail(name))
    ELSE <<name[1]>> \o Collapse(Tail(name))

RECURSIVE Strip(_)
Strip(name) ==
    IF name = <<>> THEN name
    ELSE IF name[1] = "_" THEN Strip(Tail(name))
    ELSE IF name[Len(name)] = "_" THEN Strip(SubSeq(name, 1, Len(name) - 1))
    ELSE name

clean(name) ==
    LET up == upper(name)
        spaced == [k \in 1..Len(up) |-> IF up[k] = " " THEN "_" ELSE up[k]]
        kept == SelectSeq(spaced,
                    LAMBDA c : c \in Range(UpperLetters) \cup Digits \cup {"_"})
    IN  Strip(Collapse(kept))

RECURSIVE Join(_)
Join(parts) ==
    IF parts = <<>> THEN <<>>
    ELSE IF Len(parts) = 1 THEN parts[1]
    ELSE parts[1] \o <<"_">> \o Join(Tail(parts))

generate_branch_name(team_name, leader_name) ==
    Join(SelectSeq(<<clean(team_name), clean(leader_name), <<"A", "I">>,
                     <<"F", "i", "x">>>>,
                   LAMBDA part : part # <<>>))

(* Team and leader names a run may be given. *)
Names == {<<"t", " ", "1">>, <<"!">>}
RunNames == {<<<<"t", " ", "1">>, <<"!">>>>, <<<<"!">>, <<"!">>>>}

(* Branch names push may be called with. *)
Branches ==
    {<<"m", "a", "i", "n">>, <<"M", "a", "s", "t", "e", "r">>,
     <<"d", "e", "v">>, AI_Fix, <<"t", "_">> \o AI_Fix}
        \cup {generate_branch_name(t, l) : t \in Names, l \in Names}

(* The clone's working tree and branch, and the remote branch: sets of
   patch fingerprints written, committed and pushed. *)
EmptyRepo == [worktree |-> {}, commits |-> {}, pushed |-> {}]

ApplyOutcomes ==
    {"committed", "no_diff", "write_error", "git_error", "outside_workspace"}

(* Mutant: the budget check compares with > instead of >=. *)
BudgetReached_OffByOne(commit_count) == commit_count > MAX_COMMITS_PER_RUN

(* `if self.commit_count >= MAX_COMMITS_PER_RUN` *)
BudgetReached(commit_count) == commit_count >= MAX_COMMITS_PER_RUN

(* apply_fix: writes the file and commits it at once. *)
apply_fix(fix_result, git, rp, outcome) ==
    LET fp == fix_result.patch_fingerprint
        written_to_disk == [rp EXCEPT !.worktree = @ \cup {fp}]
    IN  IF ~fix_result.success \/ ~fix_result.patched_content
        THEN [applied |-> FALSE, git |-> git, repo |-> rp]
        ELSE IF BudgetReached(git.commit_count)
        THEN [applied |-> FALSE,
              git |-> [git EXCEPT !.efficiency_penalty_risk = TRUE], repo |-> rp]
        ELSE IF outcome \in {"outside_workspace", "write_error"}
        THEN [applied |-> FALSE, git |-> git, repo |-> rp]
        ELSE IF outcome = "no_diff"
        THEN [applied |-> FALSE, git |-> git, repo |-> rp]
        ELSE IF outcome = "git_error"
        THEN [applied |-> FALSE, git |-> git, repo |-> written_to_disk]
        ELSE [applied |-> TRUE, git |-> [git EXCEPT !.commit_count = @ + 1],
              repo |-> [written_to_disk EXCEPT !.commits = @ \cup {fp}]]

(* What the git commands of one push call do: each of the first push,
   the fetch, the rebase and the second push succeeds, fails with
   CalledProcessError, or raises something else. *)
CommandOutcomes == {"ok", "fail", "raise"}
PushRuns ==
    [push1 : CommandOutcomes, fetch : CommandOutcomes,
     rebase : CommandOutcomes, push2 : CommandOutcomes]

(* Runs that differ only in commands push never reaches are the same run. *)
CanonicalRun(run) ==
    /\ run.push1 # "fail" => (run.fetch = "ok" /\ run.rebase = "ok" /\ run.push2 = "ok")
    /\ run.fetch # "ok" => (run.rebase = "ok" /\ run.push2 = "ok")
    /\ run.rebase # "ok" => run.push2 = "ok"

(* Mutant: push without its name checks. *)
BranchRefusal_Never(branch) == ""

(* The validation gate of push. *)
BranchRefusal(branch) ==
    IF lower(branch) = <<"m", "a", "i", "n">>
         \/ lower(branch) = <<"m", "a", "s", "t", "e", "r">>
    THEN "rejected_main"
    ELSE IF ~validate_branch_name(branch) THEN "invalid_branch_name"
    ELSE ""

(* Mutant: a third attempt after the second rejection. *)
max_attempts_Three == 2 + 1

(* max_attempts of push *)
max_attempts == 2

(* The retry loop of push from attempt number `attempts` + 1 on: the
   commands run, the status set (or "" if none was set) and whether an
   exception left the call. *)
RECURSIVE PushLoop(_, _)
PushLoop(attempts, run) ==
    LET n == attempts + 1
        this == IF n = 1 THEN run.push1 ELSE run.push2
        rest == PushLoop(n, run)
    IN  IF ~(attempts < max_attempts)
        THEN [commands |-> <<>>, status |-> "", raised |-> FALSE]
        ELSE IF this = "ok"
        THEN [commands |-> <<"push">>, status |-> "success", raised |-> FALSE]
        ELSE IF this = "raise"
        THEN [commands |-> <<"push">>, status |-> "", raised |-> TRUE]
        ELSE IF n < max_attempts
        THEN IF run.fetch = "raise"
             THEN [commands |-> <<"push", "fetch">>, status |-> "", raised |-> TRUE]
             ELSE IF run.fetch = "fail"
             THEN [commands |-> <<"push", "fetch">>,
                   status |-> "conflict_unresolved", raised |-> FALSE]
             ELSE IF run.rebase = "raise"
             THEN [commands |-> <<"push", "fetch", "rebase">>, status |-> "",
                   raised |-> TRUE]
             ELSE IF run.rebase = "fail"
             THEN [commands |-> <<"push", "fetch", "rebase">>,
                   status |-> "conflict_unresolved", raised |-> FALSE]
             ELSE [commands |-> <<"push", "fetch", "rebase">> \o rest.commands,
                   status |-> rest.status, raised |-> rest.raised]
        ELSE [commands |-> <<"push">> \o rest.commands,
              status |-> IF rest.status = "" THEN "conflict_unresolved"
                         ELSE rest.status,
              raised |-> rest.raised]

(* push: returns the agent afterwards, the git commands run, the remote
   branch afterwards and whether an exception left the call. *)
push(git, rp, branch, run) ==
    LET loop == PushLoop(0, run)
    IN  IF BranchRefusal(branch) # ""
        THEN [git |-> [git EXCEPT !.push_status = BranchRefusal(branch)],
              commands |-> <<>>, repo |-> rp, raised |-> FALSE]
        ELSE [git |-> IF loop.status = "" THEN git
                      ELSE [git EXCEPT !.push_status = loop.status],
              commands |-> loop.commands,
              repo |-> IF loop.status = "success"
                       THEN [rp EXCEPT !.pushed = rp.commits] ELSE rp,
              raised |-> loop.raised]

(* ------------------------------------------------------------------ *)
(* CIMonitor.poll_status                                               *)
(* ------------------------------------------------------------------ *)
(* What the polling loop ends on. *)
PollObservations ==
    {"bad_repo_url", "all_completed_ok", "all_completed_failed",
     "in_progress_7_times", "http_4xx", "window_exhausted"}

poll_status(obs) ==
    CASE obs = "bad_repo_url" -> "unknown_timeout"
      [] obs = "all_completed_ok" -> "completed_success"
      [] obs = "all_completed_failed" -> "completed_failure"
      [] obs = "in_progress_7_times" -> "stalled"
      [] obs = "http_4xx" -> "ci_error"
      [] obs = "window_exhausted" -> "unknown_timeout"

(* ------------------------------------------------------------------ *)
(* State                                                               *)
(* ------------------------------------------------------------------ *)
VARIABLES
    pc,                 \* position of run(): setup, iter, build, detect, fix,
                        \* verify, push, poll, finish, returned
    now,                \* time.time() - run_start, seconds
    state,              \* the AgentState dict
    git_agent,          \* GitAgent fields
    seen_fingerprints,  \* FixAgent._seen_fingerprints
    history,            \* the run's _FixHistoryStore
    bug_attempts,       \* bug signature -> attempts so far
    loc,                \* locals of the current iteration
    calls,              \* external calls started in the current iteration
    exc,                \* the external call that raised in the last step, or ""
    written,            \* statuses handed to ResultsWriter.write_results
    ret,                \* the last direct call of a collaborator and its result
    fix_threshold,      \* FixAgent.confidence_threshold
    repo,               \* working tree, local branch and remote branch
    git_commands,       \* git commands run by the latest push call
    ineffective         \* fingerprints of applied patches that scored 0.0

vars == <<pc, now, state, git_agent, seen_fingerprints, history, bug_attempts,
          loc, calls, exc, written, ret, fix_threshold, repo, git_commands,
          ineffective>>

CallNames == {"build", "fix", "apply", "verify", "push", "poll"}
NoCalls == [c \in CallNames |-> 0]
Called(c) == [calls EXCEPT ![c] = @ + 1]

NoLocals ==
    [elapsed |-> 0, remaining |-> 0, exit_code |-> -1, bugs |-> <<>>, idx |-> 0,
     iteration_fixes |-> <<>>, applied |-> <<>>, escalated_signatures |-> {},
     effective_in_iteration |-> 0, post_fix_bugs |-> <<>>, verify_exit |-> -1,
     should_commit |-> FALSE, ci_status |-> "", commits_before |-> 0,
     finished |-> FALSE]

NoCall == [op |-> "none"]

(* GitAgent.__init__ *)
NewGitAgent == [commit_count |-> 0, push_status |-> "pending",
                efficiency_penalty_risk |-> FALSE]

(* No run() entered yet: the locals of run() and the run's records. *)
NotStarted ==
    /\ now = 0
    /\ state = [iteration |-> 0, status |-> "pending", execution_summary |-> "",
                performance_hint |-> "normal", snapshots |-> <<>>,
                ci_runs |-> <<>>, ci_stalled_flag |-> FALSE,
                effective_fix_count |-> 0, commit_count |-> 0,
                branch_name |-> <<"m", "a", "i", "n">>]
    /\ bug_attempts = [s \in {generate_bug_signature(b) : b \in BugPool} |-> 0]
    /\ loc = NoLocals
    /\ calls = NoCalls
    /\ exc = ""
    /\ written = <<>>
    /\ ret = NoCall
    /\ git_commands = <<>>
    /\ ineffective = {}

(* Fresh objects: Orchestrator(fix_agent) just built, run() not yet started. *)
Fresh ==
    /\ NotStarted
    /\ history = EmptyHistory
    /\ git_agent = NewGitAgent
    /\ seen_fingerprints = {}
    /\ repo = EmptyRepo

Init ==
    /\ pc = "setup"
    /\ fix_threshold = confidence_threshold
    /\ Fresh

Later == {t \in TimePoints : t >= now}

Max(a, b) == IF a >= b THEN a ELSE b

(* Mutant: the build call loses its try/except. *)
Caught_NotBuild(call) ==
    call \in {"scan", "parse", "static", "read", "fix", "apply", "verify", "push", "poll"}

(* The external calls of the loop that sit inside a try/except of run(). *)
Caught(call) ==
    call \in {"build", "scan", "parse", "static", "read", "fix", "apply",
              "verify", "push", "poll"}

(* The outer `except Exception` of run(). *)
Fatal(st) == [st EXCEPT !.status = "error", !.execution_summary = "Fatal error"]

(* Of an IterationSnapshot the model keeps the iteration number; the
   ci_status it is built with stays readable in loc.ci_status. *)
Snapshot(i, ci_status, summary) == [iteration |-> i]

(* Mutant: the snapshot of an iteration is appended twice. *)
AddSnapshot_Twice(st, snap) == [st EXCEPT !.snapshots = Append(Append(@, snap), snap)]

(* state["snapshots"].append(IterationSnapshot(...)) *)
AddSnapshot(st, snap) == [st EXCEPT !.snapshots = Append(@, snap)]

(* Mutant: the loop runs one iteration too many. *)
LoopHasNext_OffByOne(i) == i <= RUN_RETRY_LIMIT

(* range(1, RUN_RETRY_LIMIT + 1) has a next value after i. *)
LoopHasNext(i) == i < RUN_RETRY_LIMIT

(* Mutant: strict comparison against the abort threshold. *)
GuardrailAbort_Strict(elapsed) == elapsed > _GUARDRAIL_ABORT

(* `if elapsed >= _GUARDRAIL_ABORT` *)
GuardrailAbort(elapsed) == elapsed >= _GUARDRAIL_ABORT

(* Mutant: finalisation overwrites whatever status the loop set. *)
FinalStatus_Overwrite(status) == "exhausted"

(* Mutant: finalisation forgotten. *)
FinalStatus_Keep(status) == status

(* "Finalise status if still pending". *)
FinalStatus(status) == IF status = "pending" THEN "exhausted" ELSE status

(* ------------------------------------------------------------------ *)
(* Steps 1-2.5: clone, branch, project type, CI config                 *)
(* ------------------------------------------------------------------ *)
Setup ==
    /\ pc = "setup"
    /\ \E t \in Later, ok \in BOOLEAN, names \in RunNames :
         /\ now' = t
         /\ ~ok => names = <<<<"t", " ", "1">>, <<"!">>>>
         /\ IF ok
            THEN /\ pc' = "iter"
                 /\ exc' = ""
                 /\ state' = [state EXCEPT !.branch_name =
                                  generate_branch_name(names[1], names[2])]
            ELSE /\ pc' = "finish"
                 /\ exc' = "clone"
                 /\ state' = Fatal(state)
    /\ UNCHANGED <<git_agent, seen_fingerprints, history, bug_attempts,
                   loc, calls, written>>
    /\ UNCHANGED <<ret, fix_threshold, repo, git_commands, ineffective>>

(* ------------------------------------------------------------------ *)
(* Top of the for loop and (a) the guardrail check                     *)
(* ------------------------------------------------------------------ *)
IterStart ==
    /\ pc = "iter"
    /\ exc' = ""
    /\ IF ~LoopHasNext(state.iteration)
       THEN /\ pc' = "finish"
            /\ UNCHANGED <<state, loc, calls, git_commands>>
       ELSE LET i == state.iteration + 1
                st1 == [state EXCEPT !.iteration = i,
                                     !.performance_hint = _get_performance_hint(now)]
            IN  /\ loc' = [NoLocals EXCEPT !.elapsed = now,
                                           !.remaining = Max(0, _GUARDRAIL_ABORT - now),
                                           !.commits_before = git_agent.commit_count]
                /\ calls' = NoCalls
                /\ git_commands' = <<>>
                /\ IF GuardrailAbort(now)
                   THEN /\ state' = [st1 EXCEPT
                               !.status = "exhausted",
                               !.execution_summary = "Stopped: 5-minute performance guardrail reached."]
                        /\ pc' = "finish"
                   ELSE /\ state' = st1
                        /\ pc' = "build"
    /\ UNCHANGED <<now, git_agent, seen_fingerprints, history, bug_attempts, written>>
    /\ UNCHANGED <<ret, fix_threshold, repo, ineffective>>

(* ------------------------------------------------------------------ *)
(* (b) Execute build                                                   *)
(* ------------------------------------------------------------------ *)
Build ==
    /\ pc = "build"
    /\ calls' = Called("build")
    /\ \E t \in Later, outcome \in {"raise", "exit_0", "exit_1"} :
         /\ now' = t
         /\ IF outcome = "raise"
            THEN /\ exc' = "build"
                 /\ IF Caught("build")
                    THEN /\ state' = AddSnapshot(state,
                                  Snapshot(state.iteration, "pending", "Executor error"))
                         /\ loc' = [loc EXCEPT !.finished = TRUE]
                         /\ pc' = "iter"
                    ELSE /\ state' = Fatal(state)
                         /\ loc' = loc
                         /\ pc' = "finish"
            ELSE /\ exc' = ""
                 /\ state' = state
                 /\ loc' = [loc EXCEPT !.exit_code = IF outcome = "exit_0" THEN 0 ELSE 1]
                 /\ pc' = "detect"
    /\ UNCHANGED <<git_agent, seen_fingerprints, history, bug_attempts, written>>
    /\ UNCHANGED <<ret, fix_threshold, repo, git_commands, ineffective>>

(* ------------------------------------------------------------------ *)
(* (c) detectors and merge, (d) success check, (e) sort and batch      *)
(* ------------------------------------------------------------------ *)
Detect ==
    /\ pc = "detect"
    /\ \E merged \in BugLists, failed \in {"", "scan", "parse", "static"} :
         /\ exc' = failed
         /\ IF failed # "" /\ ~Caught(failed)
            THEN /\ state' = Fatal(state)
                 /\ loc' = loc
                 /\ pc' = "finish"
            ELSE IF loc.exit_code = 0
            THEN /\ state' = AddSnapshot(
                        [state EXCEPT !.status = "success",
                                      !.execution_summary = "Healing successful"],
                        Snapshot(state.iteration, "success", "Build passed."))
                 /\ loc' = [loc EXCEPT !.bugs = merged, !.finished = TRUE]
                 /\ pc' = "finish"
            ELSE IF merged = <<>>
            THEN /\ loc' = [loc EXCEPT !.finished = TRUE]
                 /\ IF state.iteration = RUN_RETRY_LIMIT
                    THEN /\ state' = [AddSnapshot(state,
                                  Snapshot(state.iteration, "failure", "No bugs detected in logs."))
                                EXCEPT !.status = "failure",
                                       !.execution_summary =
                                           "Build failed but parser could not identify specific bugs."]
                         /\ pc' = "finish"
                    ELSE /\ state' = AddSnapshot(state,
                                  Snapshot(state.iteration, "failure", "No bugs detected in logs."))
                         /\ pc' = "iter"
            ELSE /\ state' = state
                 /\ loc' = [loc EXCEPT
                        !.bugs = BatchLimit(_sort_bugs_by_priority(merged),
                                            state.performance_hint, loc.remaining),
                        !.post_fix_bugs = BatchLimit(_sort_bugs_by_priority(merged),
                                                     state.performance_hint, loc.remaining),
                        !.idx = 1]
                 /\ pc' = "fix"
    /\ UNCHANGED <<now, git_agent, seen_fingerprints, history, bug_attempts,
                   calls, written>>
    /\ UNCHANGED <<ret, fix_threshold, repo, git_commands, ineffective>>

(* ------------------------------------------------------------------ *)
(* (f) Fix phase: one pass of `for bug in bugs`                        *)
(* ------------------------------------------------------------------ *)
AfterBug(l) ==
    IF l.idx > Len(l.bugs) THEN "verify" ELSE "fix"

Escalate(l, sig) ==
    [l EXCEPT !.escalated_signatures = @ \cup {sig}, !.idx = @ + 1]

(* Mutant: the retry limit lets one more attempt through. *)
AttemptsExhausted_Late(attempts) == attempts > PER_BUG_RETRY_LIMIT

(* "Per-bug retry limit check": attempts >= PER_BUG_RETRY_LIMIT *)
AttemptsExhausted(attempts) == attempts >= PER_BUG_RETRY_LIMIT

FixStep ==
    /\ pc = "fix"
    /\ loc.idx <= Len(loc.bugs)
    /\ LET bug == loc.bugs[loc.idx]
           bug_sig == generate_bug_signature(bug)
           attempts == bug_attempts[bug_sig]
           skip == [loc EXCEPT !.idx = @ + 1]
       IN
       IF bug_sig \in loc.escalated_signatures
       THEN /\ loc' = skip
            /\ pc' = AfterBug(skip)
            /\ exc' = ""
            /\ UNCHANGED <<now, state, git_agent, seen_fingerprints, history,
                           bug_attempts, calls, repo>>
       ELSE IF AttemptsExhausted(attempts)
       THEN /\ loc' = Escalate(loc, bug_sig)
            /\ pc' = AfterBug(skip)
            /\ exc' = ""
            /\ UNCHANGED <<now, state, git_agent, seen_fingerprints, history,
                           bug_attempts, calls, repo>>
       ELSE
       /\ bug_attempts' = [bug_attempts EXCEPT ![bug_sig] = attempts + 1]
       /\ \E kind \in {"read_error", "raise", "result"} :
          \/ /\ kind = "read_error"
             /\ exc' = "read"
             /\ IF Caught("read")
                THEN loc' = skip /\ pc' = AfterBug(skip) /\ state' = state
                ELSE loc' = loc /\ pc' = "finish" /\ state' = Fatal(state)
             /\ UNCHANGED <<now, git_agent, seen_fingerprints, history, calls, repo>>
          \/ /\ kind = "raise"
             /\ exc' = "fix"
             /\ calls' = Called("fix")
             /\ now' = now
             /\ IF Caught("fix")
                THEN loc' = skip /\ pc' = AfterBug(skip) /\ state' = state
                ELSE loc' = loc /\ pc' = "finish" /\ state' = Fatal(state)
             /\ UNCHANGED <<git_agent, seen_fingerprints, history, repo>>
          \/ /\ kind = "result"
             /\ \E inp \in FixInputs, applyOut \in ApplyOutcomes \cup {"raise"} :
                LET r == fix(bug, inp, seen_fingerprints, fix_threshold)
                    fix_result == r.result
                    known == get_fingerprints(history, bug_sig)
                    repeated == /\ fix_result.success
                                /\ fix_result.patch_fingerprint # <<>>
                                /\ fix_result.patch_fingerprint \in known
                    accepted == fix_result.success /\ ~repeated
                    a == apply_fix(fix_result, git_agent, repo, applyOut)
                    applied == accepted /\ applyOut # "raise" /\ a.applied
                    recorded == IF repeated
                                THEN [fix_result EXCEPT !.success = FALSE,
                                                        !.escalation_reason = REPEATED_FIX]
                                ELSE fix_result
                    l1 == [loc EXCEPT !.iteration_fixes = Append(@, recorded)]
                IN  /\ now' = now
                    /\ seen_fingerprints' = r.seen
                    /\ CanonicalInput(inp)
                    /\ inp.patch <= Proposed(bug, seen_fingerprints) + 1
                    /\ ~accepted => applyOut = "committed"
                    /\ IF ~accepted
                       THEN /\ loc' = Escalate(l1, bug_sig)
                            /\ pc' = AfterBug(skip)
                            /\ exc' = ""
                            /\ calls' = Called("fix")
                            /\ state' = state
                            /\ UNCHANGED <<git_agent, history, repo>>
                       ELSE /\ history' = HistoryAdd(history, bug_sig,
                                                     fix_result.patch_fingerprint)
                            /\ calls' = [calls EXCEPT !["fix"] = @ + 1, !["apply"] = @ + 1]
                            /\ exc' = IF applyOut = "raise" THEN "apply" ELSE ""
                            /\ IF applyOut = "raise" /\ ~Caught("apply")
                               THEN /\ loc' = l1
                                    /\ pc' = "finish"
                                    /\ state' = Fatal(state)
                                    /\ git_agent' = git_agent
                                    /\ repo' = repo
                               ELSE /\ git_agent' = IF applyOut = "raise" THEN git_agent
                                                    ELSE a.git
                                    /\ repo' = IF applyOut = "raise" THEN repo
                                               ELSE a.repo
                                    /\ loc' = [l1 EXCEPT
                                          !.idx = @ + 1,
                                          !.applied = IF applied THEN Append(@, bug) ELSE @]
                                    /\ pc' = AfterBug(skip)
                                    /\ state' = state
    /\ UNCHANGED written
    /\ UNCHANGED <<ret, fix_threshold, git_commands, ineffective>>

(* ------------------------------------------------------------------ *)
(* (g) confidence gate and scoring, (h) commit gating                  *)
(* ------------------------------------------------------------------ *)
Score(fixes, pre_sigs, post_sigs) ==
    [k \in 1..Len(fixes) |->
        IF fixes[k].success
        THEN [fixes[k] EXCEPT !.effectiveness_score =
                 _score_effectiveness(generate_bug_signature(fixes[k].bug_report),
                                      pre_sigs, post_sigs)]
        ELSE fixes[k]]

Effective(fixes) ==
    Cardinality({k \in 1..Len(fixes) :
                    fixes[k].success /\ fixes[k].effectiveness_score > 0})

should_commit(applied_in_iteration, effective_in_iteration,
              root_failures_remain, has_root_fixes) ==
    /\ applied_in_iteration > 0
    /\ effective_in_iteration > 0
    /\ (~root_failures_remain \/ has_root_fixes)

(* Mutant: strict comparison, so a fully escalated batch never stops the loop. *)
AllEscalated_Strict(escalated_signatures, bugs) ==
    Cardinality(escalated_signatures) > Len(bugs)

(* "If ALL bugs were escalated, stop loop". *)
AllEscalated(escalated_signatures, bugs) ==
    Cardinality(escalated_signatures) >= Len(bugs)

(* The tail of the loop body once the gate outcome is known. *)
Gate(l, st) ==
    LET root_failures_remain == _has_root_failures(l.post_fix_bugs)
        has_root_fixes == \E k \in 1..Len(l.iteration_fixes) :
                             /\ l.iteration_fixes[k].success
                             /\ _fix_targets_root(l.iteration_fixes[k])
        commit == should_commit(Len(l.applied), l.effective_in_iteration,
                                root_failures_remain, has_root_fixes)
        st1 == [st EXCEPT !.effective_fix_count = @ + l.effective_in_iteration,
                          !.commit_count = git_agent.commit_count]
        skipped == AddSnapshot(st1, Snapshot(st.iteration, "skipped",
                       "All fixes escalated, ineffective, or blocked by commit gate."))
    IN  IF commit
        THEN [loc |-> [l EXCEPT !.should_commit = TRUE], state |-> st1, pc |-> "push"]
        ELSE IF AllEscalated(l.escalated_signatures, l.bugs)
        THEN [loc |-> [l EXCEPT !.ci_status = "skipped", !.finished = TRUE],
              state |-> [skipped EXCEPT
                  !.status = "failure",
                  !.execution_summary = "All bugs escalated - no effective fixes possible."],
              pc |-> "finish"]
        ELSE [loc |-> [l EXCEPT !.ci_status = "skipped", !.finished = TRUE],
              state |-> skipped, pc |-> "iter"]

Verify ==
    /\ pc = "verify"
    /\ IF Len(loc.applied) = 0
       THEN /\ loc' = Gate(loc, state).loc
            /\ state' = Gate(loc, state).state
            /\ pc' = Gate(loc, state).pc
            /\ exc' = ""
            /\ UNCHANGED <<now, calls, ineffective>>
       ELSE /\ calls' = Called("verify")
            /\ now' = now
            /\ \E outcome \in {"raise", "exit_0", "exit_1"},
                  verify_bugs \in BugLists :
                 /\ outcome = "raise" => verify_bugs = <<>>
                 /\ verify_bugs = _sort_bugs_by_priority(verify_bugs)
                 /\ IF outcome = "raise"
                    THEN /\ exc' = "verify"
                         /\ ineffective' = ineffective
                         /\ IF Caught("verify")
                            THEN /\ loc' = Gate(loc, state).loc
                                 /\ state' = Gate(loc, state).state
                                 /\ pc' = Gate(loc, state).pc
                            ELSE /\ loc' = loc
                                 /\ state' = Fatal(state)
                                 /\ pc' = "finish"
                    ELSE LET scored == Score(loc.iteration_fixes, SigSet(loc.bugs),
                                             SigSet(verify_bugs))
                             l1 == [loc EXCEPT
                                      !.post_fix_bugs = verify_bugs,
                                      !.verify_exit = IF outcome = "exit_0" THEN 0 ELSE 1,
                                      !.iteration_fixes = scored,
                                      !.effective_in_iteration = Effective(scored)]
                         IN  /\ exc' = ""
                             /\ ineffective' = ineffective \cup
                                    {scored[k].patch_fingerprint :
                                       k \in {j \in 1..Len(scored) :
                                                /\ scored[j].bug_report \in Range(loc.applied)
                                                /\ scored[j].effectiveness_score = 0}}
                             /\ loc' = Gate(l1, state).loc
                             /\ state' = Gate(l1, state).state
                             /\ pc' = Gate(l1, state).pc
    /\ UNCHANGED <<git_agent, seen_fingerprints, history, bug_attempts, written>>
    /\ UNCHANGED <<ret, fix_threshold, repo, git_commands>>

(* ------------------------------------------------------------------ *)
(* (i) push and CI validation, (j) snapshot                            *)
(* ------------------------------------------------------------------ *)
(* `if ci_status == "success"` *)
CiPassed(ci_status) == ci_status = "success"

(* CI hang protection, CI run entry, snapshot and the success check. *)
Record(l, st, ci_status) ==
    LET st1 == [st EXCEPT
                  !.ci_stalled_flag = IF ci_status = "unknown_timeout" THEN TRUE ELSE @,
                  !.ci_runs = Append(@, [iteration |-> st.iteration])]
        st2 == AddSnapshot(st1, Snapshot(st.iteration, ci_status, "Applied fixes"))
        l1 == [l EXCEPT !.ci_status = ci_status, !.finished = TRUE]
    IN  IF CiPassed(ci_status)
        THEN [loc |-> l1,
              state |-> [st2 EXCEPT !.status = "success",
                                    !.execution_summary = "Healing successful via CI validation"],
              pc |-> "finish"]
        ELSE [loc |-> l1, state |-> st2, pc |-> "iter"]

(* Statuses that block polling; anything else is read as success. *)
EffectivePushStatus(push_status) ==
    IF push_status \notin {"success", "rejected_main", "conflict_unresolved"}
    THEN "success" ELSE push_status

Push ==
    /\ pc = "push"
    /\ calls' = Called("push")
    /\ \E run \in PushRuns :
         LET r == push(git_agent, repo, state.branch_name, run)
         IN  /\ CanonicalRun(run)
             /\ exc' = IF r.raised THEN "push" ELSE ""
             /\ git_commands' = r.commands
             /\ repo' = r.repo
             /\ git_agent' = r.git
             /\ IF r.raised /\ ~Caught("push")
                THEN /\ loc' = loc
                     /\ state' = Fatal(state)
                     /\ pc' = "finish"
                ELSE IF EffectivePushStatus(r.git.push_status) = "success"
                THEN /\ loc' = loc
                     /\ state' = state
                     /\ pc' = "poll"
                ELSE /\ loc' = Record(loc, state, "skipped").loc
                     /\ state' = Record(loc, state, "skipped").state
                     /\ pc' = Record(loc, state, "skipped").pc
    /\ UNCHANGED <<now, seen_fingerprints, history, bug_attempts, written>>
    /\ UNCHANGED <<ret, fix_threshold, ineffective>>

Poll ==
    /\ pc = "poll"
    /\ calls' = Called("poll")
    /\ \E obs \in PollObservations \cup {"raise"} :
         LET ci_status == IF obs = "raise" THEN "error" ELSE poll_status(obs)
         IN  /\ now' = now
             /\ exc' = IF obs = "raise" THEN "poll" ELSE ""
             /\ IF obs = "raise" /\ ~Caught("poll")
                THEN /\ loc' = loc
                     /\ state' = Fatal(state)
                     /\ pc' = "finish"
                ELSE /\ loc' = Record(loc, state, ci_status).loc
                     /\ state' = Record(loc, state, ci_status).state
                     /\ pc' = Record(loc, state, ci_status).pc
    /\ UNCHANGED <<git_agent, seen_fingerprints, history, bug_attempts, written>>
    /\ UNCHANGED <<ret, fix_threshold, repo, git_commands, ineffective>>

(* ------------------------------------------------------------------ *)
(* After the loop: finalise, write results, return                     *)
(* ------------------------------------------------------------------ *)
Finish ==
    /\ pc = "finish"
    /\ state' = [state EXCEPT
           !.status = FinalStatus(@),
           !.execution_summary =
               IF state.status = "pending" THEN "Reached RUN_RETRY_LIMIT without full success."
               ELSE @]
    /\ written' = Append(written, state'.status)
    /\ pc' = "returned"
    /\ exc' = ""
    /\ UNCHANGED <<now, git_agent, seen_fingerprints, history, bug_attempts, loc, calls>>
    /\ UNCHANGED <<ret, fix_threshold, repo, git_commands, ineffective>>

Next ==
    \/ Setup
    \/ IterStart
    \/ Build
    \/ Detect
    \/ FixStep
    \/ Verify
    \/ Push
    \/ Poll
    \/ Finish

Spec == Init /\ [][Next]_vars

(* ------------------------------------------------------------------ *)
(* The collaborators called directly, outside run()                    *)
(* ------------------------------------------------------------------ *)
run_vars == <<pc, now, state, bug_attempts, loc, calls, exc, written>>

(* One FixAgent, fix() and clear_fingerprints() called in any order. *)
InitFixAgent ==
    /\ pc = "FixAgent"
    /\ fix_threshold \in Thresholds
    /\ Fresh

FixAgent_fix ==
    /\ pc = "FixAgent"
    /\ \E bug \in BugPool, inp \in FixInputs :
         LET r == fix(bug, inp, seen_fingerprints, fix_threshold)
         IN  /\ seen_fingerprints' = r.seen
             /\ ret' = [op |-> "fix", bug |-> bug, inp |-> inp,
                        known |-> generate_fix_fingerprint(bug, inp.patch)
                                     \in seen_fingerprints,
                        result |-> r.result, llm_calls |-> r.llm_calls]
    /\ UNCHANGED <<run_vars, git_agent, history, fix_threshold, repo,
                   git_commands, ineffective>>

FixAgent_clear_fingerprints ==
    /\ pc = "FixAgent"
    /\ seen_fingerprints' = clear_fingerprints(seen_fingerprints)
    /\ ret' = [op |-> "clear_fingerprints"]
    /\ UNCHANGED <<run_vars, git_agent, history, fix_threshold, repo,
                   git_commands, ineffective>>

NextFixAgent ==
    \/ FixAgent_fix
    \/ FixAgent_clear_fingerprints

SpecFixAgent == InitFixAgent /\ [][NextFixAgent]_vars

(* A second run() on the same Orchestrator, FixAgent and repository.  The
   first run met the SYNTAX bug, committed patch 1 for it, pushed it and
   returned; its agents and its workspace (clone_repository reuses an
   existing directory) are what the second run starts from. *)
FirstRunPatch == generate_fix_fingerprint(SyntaxBug, 1)

FirstRunEnd ==
    /\ pc = "returned"
    /\ seen_fingerprints = {FirstRunPatch}
    /\ git_agent = [NewGitAgent EXCEPT !.commit_count = 1, !.push_status = "success"]
    /\ repo = [worktree |-> {FirstRunPatch}, commits |-> {FirstRunPatch},
               pushed |-> {FirstRunPatch}]

InitSecondRun ==
    /\ pc = "setup"
    /\ fix_threshold = confidence_threshold
    /\ NotStarted
    /\ history = EmptyHistory
    /\ seen_fingerprints = {FirstRunPatch}
    /\ git_agent = [NewGitAgent EXCEPT !.commit_count = 1, !.push_status = "success"]
    /\ repo = [worktree |-> {FirstRunPatch}, commits |-> {FirstRunPatch},
               pushed |-> {FirstRunPatch}]

SpecSecondRun == InitSecondRun /\ [][Next]_vars

(* Fix results seen from both sides: fix() called directly on one agent,
   with either threshold, and the healing loop of a run whose FixAgent
   already holds a fingerprint. *)
SpecFixResults == (InitFixAgent \/ InitSecondRun) /\ [][NextFixAgent \/ Next]_vars

(* ------------------------------------------------------------------ *)
(* Patch locality (FixAgent.fix step 11, validate_patch_locality)      *)
(* ------------------------------------------------------------------ *)
(* A patch replaces `removed` lines of a file of `size` lines, starting at
   line `first`, by `added` new lines.  Every line ends with a newline. *)
FileSizes == {12, 100}
EditSizes == 0..2
locality_window == 20
Windows == {2, locality_window}
ContextLines == 3
SmallFile == 100

Blank == [kind |-> ""]

(* "\n".join(...) of lines that keep their own "\n": after splitlines()
   every content line but the last is followed by an empty line. *)
RECURSIVE Joined(_)
Joined(content) ==
    IF Len(content) <= 1 THEN content
    ELSE <<content[1], Blank>> \o Joined(Tail(content))

(* _compute_diff: difflib.unified_diff with three lines of context and
   lineterm "", as diff.splitlines() sees it. *)
_compute_diff(size, first, removed, added) ==
    LET before == IF first - 1 < ContextLines THEN first - 1 ELSE ContextLines
        rest == size - (first + removed - 1)
        after == IF rest < ContextLines THEN rest ELSE ContextLines
        start == first - before
        content == [k \in 1..before |-> [kind |-> " "]]
                     \o [k \in 1..removed |-> [kind |-> "-"]]
                     \o [k \in 1..added |-> [kind |-> "+"]]
                     \o [k \in 1..after |-> [kind |-> " "]]
    IN  <<[kind |-> "---"], [kind |-> "+++"],
          [kind |-> "@@", old |-> start, new |-> start]>> \o Joined(content)

(* The loop of validate_patch_locality over the lines from `k` on. *)
RECURSIVE ChangedLines(_, _, _, _)
ChangedLines(diff, k, current_old_line, current_new_line) ==
    IF k > Len(diff) THEN <<>>
    ELSE IF diff[k].kind = "@@"
    THEN ChangedLines(diff, k + 1, diff[k].old, diff[k].new)
    ELSE IF diff[k].kind \in {"---", "+++"}
    THEN ChangedLines(diff, k + 1, current_old_line, current_new_line)
    ELSE IF diff[k].kind = "-"
    THEN <<current_old_line>>
           \o ChangedLines(diff, k + 1, current_old_line + 1, current_new_line)
    ELSE IF diff[k].kind = "+"
    THEN <<current_new_line>>
           \o ChangedLines(diff, k + 1, current_old_line, current_new_line + 1)
    ELSE ChangedLines(diff, k + 1, current_old_line + 1, current_new_line + 1)

validate_patch_locality(failing_line, diff, window) ==
    LET changed_lines == ChangedLines(diff, 1, 0, 0)
        min_allowed == Max(1, failing_line - window)
        max_allowed == failing_line + window
    IN  \A k \in 1..Len(changed_lines) :
            /\ changed_lines[k] >= min_allowed
            /\ changed_lines[k] <= max_allowed

(* `100 if len(file_content.splitlines()) < 100 else self.locality_window` *)
effective_window(size, window) == IF size < SmallFile THEN 100 ELSE window

(* Step 11 of fix() for one patch. *)
InitLocality ==
    /\ pc = "FixAgent.locality"
    /\ fix_threshold = confidence_threshold
    /\ Fresh

FixAgent_locality ==
    /\ pc = "FixAgent.locality"
    /\ pc' = "FixAgent.locality.done"
    /\ \E size \in FileSizes, removed \in EditSizes, added \in EditSizes,
          window \in Windows :
         \E first \in 1..size, failing_line \in 1..size :
            /\ removed + added > 0
            /\ first + removed - 1 <= size
            /\ ret' = [op |-> "locality", size |-> size, first |-> first,
                       removed |-> removed, added |-> added,
                       failing_line |-> failing_line, window |-> window,
                       locality_ok |->
                          validate_patch_locality(failing_line,
                              _compute_diff(size, first, removed, added),
                              effective_window(size, window))]
    /\ UNCHANGED <<now, state, bug_attempts, loc, calls, exc, written>>
    /\ UNCHANGED <<git_agent, seen_fingerprints, history, fix_threshold, repo,
                   git_commands, ineffective>>

NextLocality == FixAgent_locality

SpecLocality == InitLocality /\ [][NextLocality]_vars

(* Failure extraction and the priority sort of one iteration, called
   directly.  The detectors may report several bugs of one type, in
   several files and on several lines. *)
SyntaxBugApp ==
    [bug_type |-> "SYNTAX", sub_type |-> "invalid_syntax",
     file_path |-> "app.py", line_number |-> 9]
SyntaxBugMain2 ==
    [bug_type |-> "SYNTAX", sub_type |-> "invalid_syntax",
     file_path |-> "main.py", line_number |-> 2]
DetectedPool == BugPool \cup {SyntaxBugApp, SyntaxBugMain2}

(* Python's string order on the file paths of the pool. *)
PathOrder == <<"app.py", "main.py", "utils.py">>
PathRank(path) == CHOOSE k \in 1..Len(PathOrder) : PathOrder[k] = path

ByFileLine(a, b) ==
    \/ PathRank(a.file_path) < PathRank(b.file_path)
    \/ /\ a.file_path = b.file_path
       /\ a.line_number <= b.line_number

ByPriorityFileLine(a, b) ==
    \/ priority_of(a.bug_type) < priority_of(b.bug_type)
    \/ /\ priority_of(a.bug_type) = priority_of(b.bug_type)
       /\ ByFileLine(a, b)

DetectedLists == UNION {Perms(S) : S \in SUBSET DetectedPool}

(* run_builtin_scan and run_static_analysis sort their reports by
   (file_path, line_number); parse_failure_log sorts its reports by
   (priority, file_path, line_number). *)
ScanReports ==
    {s \in DetectedLists :
        \A i \in 1..Len(s), j \in 1..Len(s) : i < j => ByFileLine(s[i], s[j])}
ParserReports ==
    {s \in DetectedLists :
        \A i \in 1..Len(s), j \in 1..Len(s) : i < j => ByPriorityFileLine(s[i], s[j])}

(* Append the reports whose (file_path, line_number, sub_type) key is not
   present yet. *)
RECURSIVE MergeNew(_, _)
MergeNew(bugs, more) ==
    IF more = <<>> THEN bugs
    ELSE MergeNew(IF generate_bug_signature(more[1]) \in SigSet(bugs)
                  THEN bugs ELSE Append(bugs, more[1]),
                  Tail(more))

MergeDetectors(builtin_bugs, ci_bugs, static_bugs) ==
    MergeNew(MergeNew(builtin_bugs, ci_bugs), static_bugs)

InitSort ==
    /\ pc = "Orchestrator.sort"
    /\ fix_threshold = confidence_threshold
    /\ Fresh

Orchestrator_sort ==
    /\ pc = "Orchestrator.sort"
    /\ pc' = "Orchestrator.sort.done"
    /\ \E builtin_bugs \in ScanReports, ci_bugs \in ParserReports,
          static_bugs \in ScanReports,
          hint \in {"normal", "reduced", "critical"} :
         LET merged == MergeDetectors(builtin_bugs, ci_bugs, static_bugs)
         IN  /\ merged # <<>>
             /\ ret' = [op |-> "sort", builtin_bugs |-> builtin_bugs,
                        ci_bugs |-> ci_bugs, static_bugs |-> static_bugs,
                        hint |-> hint, merged |-> merged,
                        bugs |-> BatchLimit(_sort_bugs_by_priority(merged),
                                            hint, _GUARDRAIL_ABORT)]
    /\ UNCHANGED <<now, state, bug_attempts, loc, calls, exc, written>>
    /\ UNCHANGED <<git_agent, seen_fingerprints, history, fix_threshold, repo,
                   git_commands, ineffective>>

NextSort == Orchestrator_sort

SpecSort == InitSort /\ [][NextSort]_vars

(* The outcome classifier, called directly on the bug lists of two
   consecutive iterations.  Signatures are compared as sorted lists of
   sha256 prefixes; SignatureOrder is the order of the pool's hashes. *)
SignatureOrder ==
    <<generate_bug_signature(SyntaxBugApp), generate_bug_signature(SyntaxBugMain2),
      generate_bug_signature(LintBug), generate_bug_signature(SyntaxBug)>>
SignatureRank(sig) == CHOOSE k \in 1..Len(SignatureOrder) : SignatureOrder[k] = sig

RECURSIVE InsertSignature(_, _)
InsertSignature(sig, s) ==
    IF s = <<>> THEN <<sig>>
    ELSE IF SignatureRank(s[Len(s)]) <= SignatureRank(sig)
         THEN Append(s, sig)
         ELSE Append(InsertSignature(sig, SubSeq(s, 1, Len(s) - 1)), s[Len(s)])

RECURSIVE _compute_failure_signatures_list(_)
_compute_failure_signatures_list(bugs) ==
    IF bugs = <<>> THEN <<>>
    ELSE InsertSignature(generate_bug_signature(bugs[Len(bugs)]),
             _compute_failure_signatures_list(SubSeq(bugs, 1, Len(bugs) - 1)))

(* min(priority_of(b.bug_type) for b in bugs, default=999) *)
BestPriority(bugs) ==
    IF bugs = <<>> THEN 999
    ELSE CHOOSE p \in {priority_of(bugs[k].bug_type) : k \in 1..Len(bugs)} :
            \A k \in 1..Len(bugs) : p <= priority_of(bugs[k].bug_type)

(* sum(1 for b in bugs if priority_of(b.bug_type) == best) *)
RootCount(bugs, best) ==
    Cardinality({k \in 1..Len(bugs) : priority_of(bugs[k].bug_type) = best})

(* A classifier that compares the numbers of signatures only. *)
_classify_by_count(prev_sigs, curr_sigs, prev_bugs, curr_bugs) ==
    IF prev_sigs = curr_sigs THEN "unchanged"
    ELSE IF Len(curr_sigs) <= Len(prev_sigs) THEN "improved"
    ELSE "regressed"

_classify_iteration_outcome(prev_sigs, curr_sigs, prev_bugs, curr_bugs) ==
    LET prev_best == BestPriority(prev_bugs)
        curr_best == BestPriority(curr_bugs)
        prev_root_count == RootCount(prev_bugs, prev_best)
        curr_root_count == RootCount(curr_bugs, curr_best)
    IN  IF prev_sigs = curr_sigs THEN "unchanged"
        ELSE IF curr_best > prev_best THEN "improved"
        ELSE IF curr_best < prev_best THEN "regressed"
        ELSE IF curr_root_count < prev_root_count THEN "improved"
        ELSE IF curr_root_count > prev_root_count THEN "regressed"
        ELSE IF Len(curr_sigs) <= Len(prev_sigs) THEN "improved"
        ELSE "regressed"

InitClassify ==
    /\ pc = "Orchestrator.classify"
    /\ fix_threshold = confidence_threshold
    /\ Fresh

(* prev_bugs and post_fix_bugs of Orchestrator.run: duplicate-free lists,
   the signatures computed from the same lists. *)
Orchestrator_classify ==
    /\ pc = "Orchestrator.classify"
    /\ pc' = "Orchestrator.classify.done"
    /\ \E prev_bugs \in DetectedLists, curr_bugs \in DetectedLists :
         ret' = [op |-> "classify", prev_bugs |-> prev_bugs, curr_bugs |-> curr_bugs,
                 outcome |-> _classify_iteration_outcome(
                                 _compute_failure_signatures_list(prev_bugs),
                                 _compute_failure_signatures_list(curr_bugs),
                                 prev_bugs, curr_bugs)]
    /\ UNCHANGED <<now, state, bug_attempts, loc, calls, exc, written>>
    /\ UNCHANGED <<git_agent, seen_fingerprints, history, fix_threshold, repo,
                   git_commands, ineffective>>

NextClassify == Orchestrator_classify

SpecClassify == InitClassify /\ [][NextClassify]_vars

(* _score_effectiveness called directly with any signature and any pre-fix
   and post-fix signature sets. *)
PoolSignatures == {generate_bug_signature(b) : b \in DetectedPool}

InitScore ==
    /\ pc = "Orchestrator.score"
    /\ fix_threshold = confidence_threshold
    /\ Fresh

Orchestrator_score ==
    /\ pc = "Orchestrator.score"
    /\ pc' = "Orchestrator.score.done"
    /\ \E sig \in PoolSignatures, pre_sigs \in SUBSET PoolSignatures,
          post_sigs \in SUBSET PoolSignatures :
         ret' = [op |-> "score", sig |-> sig, pre_sigs |-> pre_sigs,
                 post_sigs |-> post_sigs,
                 score |-> _score_effectiveness(sig, pre_sigs, post_sigs)]
    /\ UNCHANGED <<now, state, bug_attempts, loc, calls, exc, written>>
    /\ UNCHANGED <<git_agent, seen_fingerprints, history, fix_threshold, repo,
                   git_commands, ineffective>>

NextScore == Orchestrator_score

(* The scoring function on its own and inside the run. *)
SpecScore == (Init \/ InitScore) /\ [][Next \/ NextScore]_vars

(* ------------------------------------------------------------------ *)
(* CIMonitor: job filtering and the polling loop                       *)
(* ------------------------------------------------------------------ *)
(* kw in name *)
Contains(name, kw) ==
    \E k \in 1..(Len(name) - Len(kw) + 1) : SubSeq(name, k, k + Len(kw) - 1) = kw

ignore_keywords ==
    {<<"d", "e", "p", "l", "o", "y">>, <<"p", "u", "b", "l", "i", "s", "h">>,
     <<"r", "e", "l", "e", "a", "s", "e">>, <<"n", "o", "t", "i", "f", "y">>}
focus_keywords ==
    {<<"b", "u", "i", "l", "d">>, <<"t", "e", "s", "t">>, <<"l", "i", "n", "t">>,
     <<"c", "h", "e", "c", "k">>, <<"c", "i">>}

Ignored(name) == \E kw \in ignore_keywords : Contains(lower(name), kw)
Focused(name) == \E kw \in focus_keywords : Contains(lower(name), kw)

(* `return filtered or jobs` *)
_filter_jobs(jobs) ==
    LET Keep(job) == ~Ignored(job.name) /\ Focused(job.name)
        filtered == SelectSeq(jobs, Keep)
    IN  IF filtered # <<>> THEN filtered ELSE jobs

(* The jobs of one run as the API lists them: "build", "Deploy", "docs"
   and "release-check", each absent, running, passed or failed. *)
JobNames ==
    <<<<"b", "u", "i", "l", "d">>,
      <<"D", "e", "p", "l", "o", "y">>,
      <<"d", "o", "c", "s">>,
      <<"r", "e", "l", "e", "a", "s", "e", "-", "c", "h", "e", "c", "k">>>>
JobStates ==
    {[status |-> "in_progress", conclusion |-> ""],
     [status |-> "completed", conclusion |-> "success"],
     [status |-> "completed", conclusion |-> "failure"]}

RECURSIVE JobListsFrom(_)
JobListsFrom(names) ==
    IF names = <<>> THEN {<<>>}
    ELSE LET rest == JobListsFrom(Tail(names))
         IN  rest \cup
             {<<[name |-> names[1], status |-> s.status,
                 conclusion |-> s.conclusion]>> \o r : s \in JobStates, r \in rest}
JobLists == JobListsFrom(JobNames)

InitFilter ==
    /\ pc = "CIMonitor._filter_jobs"
    /\ fix_threshold = confidence_threshold
    /\ Fresh

CIMonitor_filter_jobs ==
    /\ pc = "CIMonitor._filter_jobs"
    /\ pc' = "CIMonitor._filter_jobs.done"
    /\ \E jobs \in JobLists :
         /\ jobs # <<>>
         /\ ret' = [op |-> "_filter_jobs", jobs |-> jobs,
                    filtered_items |-> _filter_jobs(jobs)]
    /\ UNCHANGED <<now, state, bug_attempts, loc, calls, exc, written>>
    /\ UNCHANGED <<git_agent, seen_fingerprints, history, fix_threshold, repo,
                   git_commands, ineffective>>

NextFilter == CIMonitor_filter_jobs

SpecFilter == InitFilter /\ [][NextFilter]_vars

(* Time inside the poller is counted in sixteenths of a second, so that
   the backoff 5.0, 7.5, 11.25, 16.875, 25.3125 ... 30.0 stays integral. *)
Sec(n) == n * 16

timeout_seconds == 300
stalled_after == 7

(* A request is answered at once or just before the client's timeout. *)
Latencies == {0, Sec(20)}

(* raise_for_status() raises for these; anything else is a body. *)
StatusCodes == {400, 404, 499, 500, 503}

(* The runs polled have the jobs "build" and "Deploy". *)
PolledJobs == JobListsFrom(SubSeq(JobNames, 1, 2))

(* The answers one request may get: an HTTP error status, another
   exception (network, decoding), or a body with the run's items. *)
Responses ==
    [kind : {"http"}, status_code : StatusCodes, items : {<<>>}]
        \cup [kind : {"exception"}, status_code : {0}, items : {<<>>}]
        \cup [kind : {"items"}, status_code : {200}, items : PolledJobs]

(* A server error taken for a permanent one. *)
Permanent_Any(status_code) == status_code >= 400

(* `if 400 <= status_code < 500` *)
Permanent(status_code) == 400 <= status_code /\ status_code < 500

failed_conclusions == {"failure", "timed_out", "action_required", "cancelled"}

(* The locals of _poll_url at its entry; `returned` is "" while it runs. *)
PollFrame(timeout) ==
    [op |-> "poll", timeout |-> timeout, elapsed |-> 0, backoff |-> Sec(5),
     consecutive_in_progress |-> 0, consecutive_same_state |-> 0,
     last_status |-> "", returned |-> "", observed |-> "", status_code |-> 0,
     in_progress_run |-> 0]

(* What one request shows: the failure, or the state of the filtered
   items (queued when there are none). *)
Observation(resp) ==
    IF resp.kind = "http"
    THEN IF Permanent(resp.status_code) THEN "http_4xx" ELSE "http_5xx"
    ELSE IF resp.kind = "exception" THEN "exception"
    ELSE IF resp.items = <<>> THEN "queued"
    ELSE LET filtered_items == _filter_jobs(resp.items)
             all_completed == \A k \in 1..Len(filtered_items) :
                                  filtered_items[k].status = "completed"
             any_failed == \E k \in 1..Len(filtered_items) :
                               filtered_items[k].conclusion \in failed_conclusions
         IN  IF ~all_completed THEN "in_progress"
             ELSE IF any_failed THEN "completed_failure"
             ELSE "completed_success"

(* One pass of the while loop: the request took `latency`, had the status
   `status_code` (0 when there was no response) and showed `observed`. *)
PollOnce(f, latency, status_code, observed) ==
    LET t == f.elapsed + latency
        seen == [f EXCEPT !.observed = observed,
                          !.status_code = status_code,
                          !.in_progress_run =
                              IF observed = "in_progress" THEN @ + 1 ELSE 0]
        current_status == observed
        in_progress == IF current_status = "in_progress"
                       THEN f.consecutive_in_progress + 1 ELSE 0
        same == IF current_status = f.last_status
                THEN f.consecutive_same_state + 1 ELSE 0
        fast == current_status = f.last_status /\ same >= 2
        grown == IF fast THEN f.backoff * 2 ELSE (f.backoff * 3) \div 2
    IN  CASE observed = "http_4xx" ->
                [seen EXCEPT !.elapsed = t, !.returned = "ci_error"]
          [] observed \in {"http_5xx", "exception"} ->
                [seen EXCEPT !.elapsed = t + Sec(10)]
          [] observed \in {"completed_failure", "completed_success"} ->
                [seen EXCEPT !.elapsed = t, !.returned = observed]
          [] OTHER ->
                IF in_progress >= stalled_after
                THEN [seen EXCEPT !.elapsed = t, !.returned = "stalled",
                                  !.consecutive_in_progress = in_progress]
                ELSE [seen EXCEPT
                        !.consecutive_in_progress = in_progress,
                        !.consecutive_same_state = same,
                        !.last_status = current_status,
                        !.elapsed = t + f.backoff,
                        !.backoff = IF grown < Sec(30) THEN grown ELSE Sec(30)]

InitPoll ==
    /\ pc = "CIMonitor.poll_status"
    /\ fix_threshold = confidence_threshold
    /\ Fresh

(* poll_status: no owner/repo in the URL, or the loop is entered. *)
CIMonitor_poll_status ==
    /\ pc = "CIMonitor.poll_status"
    /\ \E repo_path_found \in BOOLEAN :
         IF repo_path_found
         THEN /\ ret' = PollFrame(Sec(timeout_seconds))
              /\ pc' = "CIMonitor._poll_url"
         ELSE /\ ret' = [PollFrame(Sec(timeout_seconds)) EXCEPT
                            !.returned = "unknown_timeout"]
              /\ pc' = "CIMonitor.returned"
    /\ UNCHANGED <<now, state, bug_attempts, loc, calls, exc, written>>
    /\ UNCHANGED <<git_agent, seen_fingerprints, history, fix_threshold, repo,
                   git_commands, ineffective>>

(* `while (time.time() - start_time) < timeout_seconds`: one more pass. *)
CIMonitor_poll ==
    /\ pc = "CIMonitor._poll_url"
    /\ ret.elapsed < ret.timeout
    /\ \E latency \in Latencies,
          seen \in {<<resp.status_code, Observation(resp)>> : resp \in Responses} :
         /\ ret' = PollOnce(ret, latency, seen[1], seen[2])
         /\ pc' = IF ret'.returned # "" THEN "CIMonitor.returned"
                  ELSE "CIMonitor._poll_url"
    /\ UNCHANGED <<now, state, bug_attempts, loc, calls, exc, written>>
    /\ UNCHANGED <<git_agent, seen_fingerprints, history, fix_threshold, repo,
                   git_commands, ineffective>>

(* The loop condition fails. *)
CIMonitor_timeout ==
    /\ pc = "CIMonitor._poll_url"
    /\ ret.elapsed >= ret.timeout
    /\ ret' = [ret EXCEPT !.returned = "unknown_timeout"]
    /\ pc' = "CIMonitor.returned"
    /\ UNCHANGED <<now, state, bug_attempts, loc, calls, exc, written>>
    /\ UNCHANGED <<git_agent, seen_fingerprints, history, fix_threshold, repo,
                   git_commands, ineffective>>

NextPoll == CIMonitor_poll_status \/ CIMonitor_poll \/ CIMonitor_timeout

SpecPoll == InitPoll /\ [][NextPoll]_vars

(* ------------------------------------------------------------------ *)
(* LLMRouter: provider health and selection                            *)
(* ------------------------------------------------------------------ *)
PROVIDER_COOLDOWN_THRESHOLD == 4
PROVIDER_COOLDOWN_SKIP_COUNT == 5

(* Failures are reported to one provider until its counter shows this. *)
MaxFailures == 5

(* A router that tries gemini first. *)
_providers_gemini_first == <<"gemini", "groq", "openrouter">>

(* self._providers, by name *)
_providers == <<"groq", "gemini", "openrouter">>
ProviderNames == Range(_providers)

(* ProviderHealth() *)
NewProviderHealth ==
    [consecutive_failures |-> 0, is_healthy |-> TRUE,
     max_failures |-> PROVIDER_COOLDOWN_THRESHOLD, cooldown_remaining |-> 0]

record_failure(h) ==
    LET n == h.consecutive_failures + 1
    IN  IF n >= h.max_failures
        THEN [h EXCEPT !.consecutive_failures = n, !.is_healthy = FALSE,
                       !.cooldown_remaining = PROVIDER_COOLDOWN_SKIP_COUNT]
        ELSE [h EXCEPT !.consecutive_failures = n]

(* A success that re-enables the provider at once. *)
record_success_reenables(h) == [h EXCEPT !.consecutive_failures = 0, !.is_healthy = TRUE]

(* "Do NOT reset is_healthy - cooldown controls re-enable" *)
record_success(h) == [h EXCEPT !.consecutive_failures = 0]

tick_cooldown(h) ==
    IF h.cooldown_remaining > 0
    THEN IF h.cooldown_remaining - 1 <= 0
         THEN [h EXCEPT !.cooldown_remaining = 0, !.is_healthy = TRUE,
                        !.consecutive_failures =
                            IF h.max_failures - 1 > 1 THEN h.max_failures - 1 ELSE 1]
         ELSE [h EXCEPT !.cooldown_remaining = @ - 1]
    ELSE h

(* The first healthy provider of the list, or its first entry. *)
select_provider(health) ==
    IF \E k \in 1..Len(_providers) : health[_providers[k]].is_healthy
    THEN _providers[CHOOSE k \in 1..Len(_providers) :
                        /\ health[_providers[k]].is_healthy
                        /\ \A j \in 1..(k - 1) : ~health[_providers[j]].is_healthy]
    ELSE _providers[1]

(* LLMRouter(): `since` counts, for a provider that entered cooldown, the
   calls of get_provider made after that (-1: not in that count). *)
NewRouter ==
    [op |-> "router", health |-> [p \in ProviderNames |-> NewProviderHealth],
     last |-> "__init__", provider |-> "",
     since |-> [p \in ProviderNames |-> -1]]

InitRouter ==
    /\ pc = "LLMRouter"
    /\ fix_threshold = confidence_threshold
    /\ NotStarted
    /\ history = EmptyHistory
    /\ git_agent = NewGitAgent
    /\ seen_fingerprints = {}
    /\ repo = EmptyRepo

RouterUnchanged ==
    /\ UNCHANGED <<pc, now, state, bug_attempts, loc, calls, exc, written>>
    /\ UNCHANGED <<git_agent, seen_fingerprints, history, fix_threshold, repo,
                   git_commands, ineffective>>

LLMRouter_start ==
    /\ pc = "LLMRouter"
    /\ ret = NoCall
    /\ ret' = NewRouter
    /\ RouterUnchanged

LLMRouter_get_provider ==
    /\ pc = "LLMRouter"
    /\ ret # NoCall
    /\ LET ticked == [p \in ProviderNames |-> tick_cooldown(ret.health[p])]
       IN  ret' = [ret EXCEPT
                     !.health = ticked,
                     !.last = "get_provider",
                     !.provider = select_provider(ticked),
                     !.since = [p \in ProviderNames |->
                                  IF ret.since[p] = -1 THEN -1
                                  ELSE IF ret.since[p] >= PROVIDER_COOLDOWN_SKIP_COUNT
                                  THEN -1
                                  ELSE ret.since[p] + 1]]
    /\ RouterUnchanged

LLMRouter_report_failure ==
    /\ pc = "LLMRouter"
    /\ ret # NoCall
    /\ \E name \in ProviderNames :
         /\ ret.health[name].consecutive_failures < MaxFailures
         /\ ret' = [ret EXCEPT
                      !.health[name] = record_failure(@),
                      !.last = "report_failure",
                      !.provider = "",
                      !.since[name] =
                          IF ret.health[name].consecutive_failures + 1
                                >= ret.health[name].max_failures
                          THEN 0 ELSE @]
    /\ RouterUnchanged

LLMRouter_report_success ==
    /\ pc = "LLMRouter"
    /\ ret # NoCall
    /\ \E name \in ProviderNames :
         ret' = [ret EXCEPT !.health[name] = record_success(@),
                            !.last = "report_success", !.provider = ""]
    /\ RouterUnchanged

LLMRouter_reset ==
    /\ pc = "LLMRouter"
    /\ ret # NoCall
    /\ ret' = [NewRouter EXCEPT !.last = "reset"]
    /\ RouterUnchanged

NextRouter ==
    \/ LLMRouter_start
    \/ LLMRouter_get_provider
    \/ LLMRouter_report_failure
    \/ LLMRouter_report_success
    \/ LLMRouter_reset

SpecRouter == InitRouter /\ [][NextRouter]_vars

(* ------------------------------------------------------------------ *)
(* generate_bug_signature on the text level                            *)
(* ------------------------------------------------------------------ *)
DecimalDigits == <<"0", "1", "2", "3", "4", "5", "6", "7", "8", "9">>

(* str(n) for n >= 0 *)
RECURSIVE Decimal(_)
Decimal(n) ==
    IF n < 10 THEN <<DecimalDigits[n + 1]>>
    ELSE Append(Decimal(n \div 10), DecimalDigits[(n % 10) + 1])

(* A signature text without separators between the fields. *)
signature_text_unseparated(file_path, line_number, sub_type) ==
    file_path \o Decimal(line_number) \o sub_type

(* f"{file_path}:{line_number}:{sub_type}" *)
signature_text(file_path, line_number, sub_type) ==
    file_path \o <<":">> \o Decimal(line_number) \o <<":">> \o sub_type

(* hashlib.sha256(raw).hexdigest()[:16]: distinct texts are taken to have
   distinct digests, equal texts have equal digests. *)
sha256_prefix(raw) == <<"sha256", raw>>

(* File paths "a", "a1" and "a:1"; lines 1, 2 and 11; the classifier keys
   "off_by_one" and "wrong_indent". *)
SignaturePaths == {<<"a">>, <<"a", "1">>, <<"a", ":", "1">>}
SignatureLines == {1, 2, 11}
SignatureSubTypes ==
    {<<"o", "f", "f", "_", "b", "y", "_", "o", "n", "e">>,
     <<"w", "r", "o", "n", "g", "_", "i", "n", "d", "e", "n", "t">>}
SignatureBugs ==
    [file_path : SignaturePaths, line_number : SignatureLines,
     sub_type : SignatureSubTypes]

InitSignature ==
    /\ pc = "generate_bug_signature"
    /\ fix_threshold = confidence_threshold
    /\ Fresh

(* Two bugs signed, the first one twice. *)
Call_generate_bug_signature ==
    /\ pc = "generate_bug_signature"
    /\ pc' = "generate_bug_signature.done"
    /\ \E a \in SignatureBugs, b \in SignatureBugs :
         ret' = [op |-> "signature", a |-> a, b |-> b,
                 sig_a |-> sha256_prefix(signature_text(a.file_path, a.line_number,
                                                        a.sub_type)),
                 sig_a_again |-> sha256_prefix(signature_text(a.file_path,
                                                   a.line_number, a.sub_type)),
                 sig_b |-> sha256_prefix(signature_text(b.file_path, b.line_number,
                                                        b.sub_type))]
    /\ UNCHANGED <<now, state, bug_attempts, loc, calls, exc, written>>
    /\ UNCHANGED <<git_agent, seen_fingerprints, history, fix_threshold, repo,
                   git_commands, ineffective>>

NextSignature == Call_generate_bug_signature

SpecSignature == InitSignature /\ [][NextSignature]_vars

(* ------------------------------------------------------------------ *)
(* GitAgent: commit priority gating                                    *)
(* ------------------------------------------------------------------ *)
(* BUG_PRIORITY_TIERS.get(t, 99) *)
BUG_PRIORITY_TIERS(t) ==
    CASE t = "SYNTAX"  -> 1
      [] t = "IMPORT"  -> 2
      [] t = "TYPE"    -> 3
      [] t = "LOGIC"   -> 4
      [] t = "LINTING" -> 5
      [] OTHER         -> 99

best_tier(types) ==
    LET tiers == {BUG_PRIORITY_TIERS(types[k]) : k \in 1..Len(types)}
    IN  IF tiers = {} THEN 99
        ELSE CHOOSE t \in tiers : \A u \in tiers : t <= u

compute_priority_delta(current_bug_types, previous_bug_types) ==
    best_tier(current_bug_types) - best_tier(previous_bug_types)

should_commit_by_priority(current_bug_types, previous_bug_types) ==
    compute_priority_delta(current_bug_types, previous_bug_types) > 0

(* The six bug types of the classifier; lists of up to two of them. *)
BugTypes == {"SYNTAX", "IMPORT", "TYPE_ERROR", "INDENTATION", "LOGIC", "LINTING"}
BugTypeLists == {<<>>} \cup {<<t>> : t \in BugTypes} \cup (BugTypes \X BugTypes)

InitPriority ==
    /\ pc = "GitAgent.should_commit_by_priority"
    /\ fix_threshold = confidence_threshold
    /\ Fresh

GitAgent_should_commit_by_priority ==
    /\ pc = "GitAgent.should_commit_by_priority"
    /\ pc' = "GitAgent.should_commit_by_priority.done"
    /\ \E current \in BugTypeLists, previous \in BugTypeLists :
         ret' = [op |-> "should_commit_by_priority",
                 current |-> current, previous |-> previous,
                 commit_priority_delta |-> compute_priority_delta(current, previous),
                 returned |-> should_commit_by_priority(current, previous)]
    /\ UNCHANGED <<now, state, bug_attempts, loc, calls, exc, written>>
    /\ UNCHANGED <<git_agent, seen_fingerprints, history, fix_threshold, repo,
                   git_commands, ineffective>>

NextPriority == GitAgent_should_commit_by_priority

SpecPriority == InitPriority /\ [][NextPriority]_vars

(* ------------------------------------------------------------------ *)
(* The API endpoints: run() under asyncio.wait_for                     *)
(* ------------------------------------------------------------------ *)
(* run() is cancelled where it awaits: in the fix generator call, in the
   sleep after it, and in the CI poll. *)
AwaitPoints == {"fix", "poll"}

(* analyze_repository, except asyncio.TimeoutError: the orchestrator's
   _partial_state is the state dict of run(); its keys exist, so the
   setdefault calls change nothing. *)
analyze_repository_timeout ==
    /\ pc \in AwaitPoints
    /\ pc' = "timeout"
    /\ exc' = ""
    /\ state' = [state EXCEPT !.status = "timeout",
                              !.execution_summary = "Timed out"]
    /\ \E run \in PushRuns :
         LET attempt == state.branch_name # <<>> /\ git_agent.commit_count > 0
             r == push(git_agent, repo, state.branch_name, run)
         IN  /\ CanonicalRun(run)
             /\ git_agent' = IF attempt THEN r.git ELSE git_agent
             /\ repo' = IF attempt THEN r.repo ELSE repo
             /\ git_commands' = IF attempt THEN r.commands ELSE git_commands
             /\ ret' = [op |-> "analyze_repository",
                        state |-> state',
                        unpushed |-> repo.commits \ repo.pushed,
                        push_attempted |-> attempt]
    /\ UNCHANGED <<now, seen_fingerprints, history, bug_attempts, loc, calls, written>>
    /\ UNCHANGED <<fix_threshold, ineffective>>

(* dev_run_repo, except asyncio.TimeoutError: "a minimal state for partial
   response". *)
dev_run_repo_timeout ==
    /\ pc \in AwaitPoints
    /\ pc' = "timeout"
    /\ exc' = ""
    /\ ret' = [op |-> "dev_run_repo",
               state |-> [iteration |-> 0, status |-> "timeout", commit_count |-> 0,
                          ci_runs |-> <<>>, performance_hint |-> "critical",
                          snapshots |-> <<>>, ci_stalled_flag |-> FALSE,
                          execution_summary |-> "Hard timeout"],
               unpushed |-> repo.commits \ repo.pushed,
               push_attempted |-> FALSE]
    /\ UNCHANGED <<now, state, git_agent, seen_fingerprints, history, bug_attempts,
                   loc, calls, written>>
    /\ UNCHANGED <<fix_threshold, repo, git_commands, ineffective>>

NextDeadline ==
    \/ Next
    \/ analyze_repository_timeout
    \/ dev_run_repo_timeout

SpecDeadline == Init /\ [][NextDeadline]_vars

(* Runs on a fresh Orchestrator and FixAgent together with second runs on
   the instances a first run has used. *)
SpecRuns == (Init \/ InitSecondRun) /\ [][Next]_vars

(* ------------------------------------------------------------------ *)
(* Two runs in one server process, on different repositories           *)
(* ------------------------------------------------------------------ *)
(* Each request builds its own FixAgent and Orchestrator; the runs
   interleave where run() awaits.  The loop of a run is kept as its
   iteration count and status. *)
RunIds == {1, 2}
RepoUrls == <<"https://github.com/org/a", "https://github.com/org/b">>

(* output_path of write_results, relative to the process's directory *)
output_path == "results.json"

(* ResultsWriter.write_results: the document replaces the file at
   output_path. *)
write_results(files, run_state, path) ==
    {f \in files : f.path # path} \cup
        {[path |-> path,
          repository |-> [url |-> run_state.repo_url],
          iterations |-> run_state.iteration,
          final_results |-> [status |-> run_state.status]]}

InitConcurrent ==
    /\ pc = "concurrent"
    /\ fix_threshold = confidence_threshold
    /\ Fresh

ConcurrentUnchanged ==
    /\ UNCHANGED <<pc, now, state, bug_attempts, loc, calls, exc, written>>
    /\ UNCHANGED <<git_agent, seen_fingerprints, history, fix_threshold, repo,
                   git_commands, ineffective>>

(* Two requests arrive; each run starts with its own state dict. *)
Concurrent_start ==
    /\ pc = "concurrent"
    /\ ret = NoCall
    /\ ret' = [op |-> "concurrent",
               runs |-> [r \in RunIds |->
                            [pc |-> "loop",
                             state |-> [repo_url |-> RepoUrls[r], iteration |-> 0,
                                        status |-> "pending"]]],
               files |-> {}]
    /\ ConcurrentUnchanged

(* One pass of the healing loop of run r, or the loop's end. *)
Concurrent_iterate(r) ==
    /\ ret.op = "concurrent"
    /\ ret.runs[r].pc = "loop"
    /\ IF ~LoopHasNext(ret.runs[r].state.iteration)
       THEN ret' = [ret EXCEPT !.runs[r].pc = "finish"]
       ELSE \E status \in {"pending", "success", "failure", "exhausted", "error"} :
               ret' = [ret EXCEPT
                          !.runs[r].state.iteration = @ + 1,
                          !.runs[r].state.status = status,
                          !.runs[r].pc = IF status = "pending" THEN "loop" ELSE "finish"]
    /\ ConcurrentUnchanged

(* Section 4 of run(): finalise, write the results, return the state. *)
Concurrent_finish(r) ==
    /\ ret.op = "concurrent"
    /\ ret.runs[r].pc = "finish"
    /\ LET final == [ret.runs[r].state EXCEPT !.status = FinalStatus(@)]
       IN  ret' = [ret EXCEPT
                      !.runs[r].state = final,
                      !.runs[r].pc = "returned",
                      !.files = write_results(@, final, output_path)]
    /\ ConcurrentUnchanged

NextConcurrent ==
    \/ Concurrent_start
    \/ \E r \in RunIds : Concurrent_iterate(r)
    \/ \E r \in RunIds : Concurrent_finish(r)

SpecConcurrent == InitConcurrent /\ [][NextConcurrent]_vars

(* One _FixHistoryStore built with small caps, add() called with any
   signature and fingerprint.  ret keeps, next to the call, the fingerprints
   added to each signature since add() last inserted it and the signatures in
   the order add() inserted them. *)
MaxCap == 2
MaxAdds == 5
HistorySignatures == {"a", "b", "c"}
HistoryFingerprints == {"p", "q"}

NoAdds == [s \in HistorySignatures |-> <<>>]

Added == IF ret.op = "add" THEN ret.added ELSE NoAdds
Inserted == IF ret.op = "add" THEN ret.inserted ELSE <<>>
Adds == IF ret.op = "add" THEN ret.adds ELSE 0

InitHistory ==
    /\ pc = "_FixHistoryStore"
    /\ fix_threshold = confidence_threshold
    /\ NotStarted
    /\ \E per_bug_cap \in 1..MaxCap, global_cap \in 1..MaxCap :
         history = NewHistory(per_bug_cap, global_cap)
    /\ git_agent = NewGitAgent
    /\ seen_fingerprints = {}
    /\ repo = EmptyRepo

History_add ==
    /\ pc = "_FixHistoryStore"
    /\ Adds < MaxAdds
    /\ \E bug_sig \in HistorySignatures, patch_fp \in HistoryFingerprints :
         /\ history' = HistoryAdd(history, bug_sig, patch_fp)
         /\ ret' = [op |-> "add", bug_sig |-> bug_sig, patch_fp |-> patch_fp,
                    before |-> history, adds |-> Adds + 1,
                    added |-> [Added EXCEPT ![bug_sig] =
                                 IF HistoryHas(history, bug_sig)
                                 THEN Append(@, patch_fp) ELSE <<patch_fp>>],
                    inserted |-> IF HistoryHas(history, bug_sig) THEN Inserted
                                 ELSE Append(Inserted, bug_sig)]
    /\ UNCHANGED <<run_vars, git_agent, seen_fingerprints, fix_threshold, repo,
                   git_commands, ineffective>>

NextHistory == History_add

SpecHistory == InitHistory /\ [][NextHistory]_vars

(* One GitAgent in a clone, apply_fix() called with any fix result. *)
InitApplyFix ==
    /\ pc = "GitAgent.apply_fix"
    /\ fix_threshold = confidence_threshold
    /\ Fresh

GitAgent_apply_fix ==
    /\ pc = "GitAgent.apply_fix"
    /\ \E bug \in BugPool, patch \in Patches, success \in BOOLEAN,
          patched_content \in BOOLEAN, outcome \in ApplyOutcomes :
         LET fix_result ==
                 [FixResult(bug, success, generate_fix_fingerprint(bug, patch),
                            IF success THEN "" ELSE LOW_CONFIDENCE)
                  EXCEPT !.patched_content = patched_content]
             r == apply_fix(fix_result, git_agent, repo, outcome)
         IN  /\ git_agent' = r.git
             /\ repo' = r.repo
             /\ ret' = [op |-> "apply_fix", fix_result |-> fix_result,
                        commits_before |-> git_agent.commit_count,
                        files_changed |-> r.repo # repo,
                        applied |-> r.applied]
    /\ UNCHANGED <<run_vars, seen_fingerprints, history, fix_threshold,
                   git_commands, ineffective>>

NextApplyFix == GitAgent_apply_fix

SpecApplyFix == InitApplyFix /\ [][NextApplyFix]_vars

(* One GitAgent in a clone that holds some commits, push() called with
   any branch name. *)
Committed(fps) ==
    [EmptyRepo EXCEPT !.worktree = fps, !.commits = fps]

InitPush ==
    /\ pc = "GitAgent.push"
    /\ fix_threshold = confidence_threshold
    /\ \E fps \in SUBSET {generate_fix_fingerprint(b, 1) : b \in BugPool} :
         /\ Cardinality(fps) <= MAX_COMMITS_PER_RUN
         /\ repo = Committed(fps)
         /\ git_agent = [NewGitAgent EXCEPT !.commit_count = Cardinality(fps)]
    /\ NotStarted
    /\ history = EmptyHistory
    /\ seen_fingerprints = {}

GitAgent_push ==
    /\ pc = "GitAgent.push"
    /\ \E branch \in Branches, run \in PushRuns :
         LET r == push(git_agent, repo, branch, run)
         IN  /\ CanonicalRun(run)
             /\ git_agent' = r.git
             /\ repo' = r.repo
             /\ git_commands' = r.commands
             /\ ret' = [op |-> "push", branch |-> branch, run |-> run,
                        raised |-> r.raised, pushed_before |-> repo.pushed,
                        status |-> IF r.raised THEN "" ELSE r.git.push_status]
    /\ UNCHANGED <<run_vars, seen_fingerprints, history, fix_threshold, ineffective>>

NextPush == GitAgent_push

SpecPush == InitPush /\ [][NextPush]_vars

(* ------------------------------------------------------------------ *)
(* Properties                                                          *)
(* ------------------------------------------------------------------ *)
Ended == pc \in {"finish", "returned"}

GuardrailSummary == "Stopped: 5-minute performance guardrail reached."
RetryLimitSummary == "Reached RUN_RETRY_LIMIT without full success."

(* The fix recorded for this bug in the current iteration scored > 0. *)
ScoredEffective(bug) ==
    \E k \in 1..Len(loc.iteration_fixes) :
        /\ loc.iteration_fixes[k].bug_report = bug
        /\ loc.iteration_fixes[k].effectiveness_score > 0

BatchAllEscalated ==
    /\ loc.bugs # <<>>
    /\ \A k \in 1..Len(loc.bugs) :
          generate_bug_signature(loc.bugs[k]) \in loc.escalated_signatures

(* C1: whenever an iteration pushed and the CI poller reported the commit's
   run as passing, the run ends in that iteration with status success. *)
C1_CiPassEndsRun ==
    (loc.finished /\ calls["push"] > 0 /\ calls["poll"] > 0
        /\ loc.ci_status = "completed_success")
    => (state.status = "success" /\ Ended)

(* C2: once the status has left pending, no further iteration or external
   call is started and the status is never changed again. *)
C2_TerminalSticky ==
    [][state.status # "pending" =>
          /\ state'.status = state.status
          /\ state'.iteration = state.iteration
          /\ calls' = calls
          /\ pc' \in {"finish", "returned"}]_vars

C2_Witness ==
    /\ pc = "returned"
    /\ state.status = "success"
    /\ state.iteration < RUN_RETRY_LIMIT

(* C3: run() returns a status among success, failure, exhausted, error with
   a non-empty summary, and the results are written exactly once, with the
   final status. *)
C3_ReturnsFinal ==
    /\ pc # "returned" => written = <<>>
    /\ pc = "returned" =>
          /\ state.status \in {"success", "failure", "exhausted", "error"}
          /\ state.execution_summary # ""
          /\ written = <<state.status>>

C3_Witness ==
    /\ pc = "returned"
    /\ state.status = "exhausted"
    /\ state.execution_summary = RetryLimitSummary
    /\ Len(written) = 1

(* C4: at most RUN_RETRY_LIMIT iterations are executed and the run goes on
   to return; a loop that ran to its end leaves status exhausted with
   iteration = RUN_RETRY_LIMIT. *)
C4_IterationBudget ==
    /\ state.iteration <= RUN_RETRY_LIMIT
    /\ Len(state.snapshots) <= RUN_RETRY_LIMIT
    /\ pc # "returned" => ENABLED Next
    /\ (pc = "finish" /\ state.status = "pending") => state.iteration = RUN_RETRY_LIMIT
    /\ (pc = "returned" /\ state.execution_summary = RetryLimitSummary) =>
          (state.status = "exhausted" /\ state.iteration = RUN_RETRY_LIMIT)

C4_Witness ==
    /\ pc = "returned"
    /\ state.execution_summary = RetryLimitSummary
    /\ state.iteration = RUN_RETRY_LIMIT
    /\ Len(state.snapshots) = RUN_RETRY_LIMIT

(* C5: an exception of a collaborator call of the loop never gives status
   error; the bug or iteration is skipped and the loop goes on. *)
C5_ExceptionsIsolated ==
    /\ exc \in {"build", "scan", "parse", "static", "read", "fix", "apply",
                "verify", "push", "poll"} => state.status # "error"
    /\ exc \in {"build", "read", "fix", "apply", "verify", "push", "poll"} =>
          (state.status = "pending" /\ ~Ended)
    /\ exc = "build" => (pc = "iter" /\ loc.finished)
    /\ exc \in {"read", "fix", "apply"} => pc \in {"fix", "verify"}

C5_Witness ==
    /\ exc = "build"
    /\ pc = "iter"
    /\ state.status = "pending"
    /\ state.iteration = 1

(* C6: status failure arises exactly from a failed build with zero bugs on
   the last allowed iteration, or from an iteration whose whole batch was
   escalated, and then the loop stops in that iteration. *)
C6_FailureCases ==
    /\ state.status = "failure" =>
          /\ Ended
          /\ loc.finished
          /\ \/ (loc.exit_code = 1 /\ loc.bugs = <<>>
                   /\ state.iteration = RUN_RETRY_LIMIT)
             \/ BatchAllEscalated
    /\ (loc.finished /\ loc.exit_code = 1 /\ BatchAllEscalated) =>
          (state.status = "failure" /\ Ended)
    /\ (loc.finished /\ loc.exit_code = 1 /\ loc.bugs = <<>>
          /\ state.iteration = RUN_RETRY_LIMIT) =>
          (state.status = "failure" /\ Ended)

C6_Witness ==
    /\ state.status = "failure"
    /\ Len(loc.bugs) = 2
    /\ BatchAllEscalated
    /\ state.iteration = 1

(* C7 as stated: once the elapsed time has passed the abort threshold in
   the middle of an iteration, the next step starts no fix, apply, push or
   CI poll and ends the loop with status exhausted and the guardrail
   summary. *)
C7_AbortMidIteration ==
    [][(now >= _GUARDRAIL_ABORT /\ pc \in {"detect", "fix", "verify", "push", "poll"}) =>
          /\ \A c \in {"fix", "apply", "push", "poll"} : calls'[c] = calls[c]
          /\ state'.status = "exhausted"
          /\ state'.execution_summary = GuardrailSummary]_vars

(* C7 amended: an iteration whose guardrail check reads an elapsed time at
   or past the abort threshold starts no external call at all and ends the
   loop with status exhausted and the guardrail summary. *)
C7_AbortAtIterationStart ==
    (state.iteration >= 1 /\ loc.elapsed >= _GUARDRAIL_ABORT) =>
        /\ calls = NoCalls
        /\ Ended
        /\ state.status = "exhausted"
        /\ state.execution_summary = GuardrailSummary

C7_Witness ==
    /\ pc = "returned"
    /\ loc.elapsed >= _GUARDRAIL_ABORT
    /\ state.iteration = 2
    /\ state.status = "exhausted"

(* C8: first build fails with exactly one SYNTAX bug, its patch is accepted
   and applied, the re-execution exits 0 with no bug left (and the push
   succeeds and CI reports the commit as passing): the run ends with
   status success, iteration 1 and effective_fix_count 1. *)
C8_FixThenPass ==
    (/\ state.iteration = 1
     /\ loc.finished
     /\ loc.exit_code = 1
     /\ loc.bugs = <<SyntaxBug>>
     /\ loc.applied = <<SyntaxBug>>
     /\ loc.verify_exit = 0
     /\ loc.post_fix_bugs = <<>>
     /\ git_agent.push_status = "success"
     /\ loc.ci_status = "completed_success")
    => (state.status = "success" /\ Ended /\ state.effective_fix_count = 1)

(* C9: an iteration in which no applied patch scored above 0 creates no
   commit and issues no push. *)
C9_NoiseProtection ==
    (loc.finished /\ \A k \in 1..Len(loc.applied) : ~ScoredEffective(loc.applied[k]))
    => (git_agent.commit_count = loc.commits_before /\ calls["push"] = 0)

(* C10: a push is issued only if no SYNTAX or IMPORT bug remains in the
   post-fix bug set or a patch applied in this iteration targeted one. *)
C10_RootFixGate ==
    calls["push"] > 0 =>
        \/ ~_has_root_failures(loc.post_fix_bugs)
        \/ \E k \in 1..Len(loc.applied) : loc.applied[k].bug_type \in _ROOT_BUG_TYPES

(* C11: an applied patch that verification scored 0 is reverted: it is not
   in the clone when the next iteration builds and it is never part of a
   push made after it was found ineffective. *)
C11_IneffectiveReverted ==
    /\ pc = "build" => ineffective \cap repo.worktree = {}
    /\ ineffective \cap repo.pushed = {}

(* C12: push to main or master, or to a name that does not match
   ^[A-Z0-9_]+_AI_Fix$, returns rejected_main or invalid_branch_name and
   runs no git command. *)
C12_PushRefusesBadBranch ==
    ret.op = "push" =>
        LET is_main == lower(ret.branch) \in {<<"m", "a", "i", "n">>,
                                              <<"m", "a", "s", "t", "e", "r">>}
            matches == validate_branch_name(ret.branch)
        IN  /\ is_main =>
                 (ret.status = "rejected_main" /\ git_commands = <<>>)
            /\ (~is_main /\ ~matches) =>
                 (ret.status = "invalid_branch_name" /\ git_commands = <<>>)
            /\ (is_main \/ ~matches) =>
                 (~ret.raised /\ repo.pushed = ret.pushed_before)

C12_Witness ==
    /\ ret.op = "push"
    /\ ret.branch = AI_Fix
    /\ ret.run.push1 = "ok"
    /\ ret.status = "invalid_branch_name"
    /\ git_commands = <<>>
    /\ repo.commits # {}
    /\ repo.pushed = {}

(* How often a command occurs in a command trace. *)
Count(commands, c) == Cardinality({k \in 1..Len(commands) : commands[k] = c})

(* C13: one push call makes at most two push attempts, with exactly one
   fetch-and-rebase between them after the first is rejected; a failed
   rebase or a rejected second push gives conflict_unresolved with no
   further attempt. *)
C13_PushRetry ==
    ret.op = "push" =>
        LET r == ret.run
            rejected1 == BranchRefusal(ret.branch) = "" /\ r.push1 = "fail"
        IN  /\ Count(git_commands, "push") <= 2
            /\ Count(git_commands, "push") = 2 =>
                 git_commands = <<"push", "fetch", "rebase", "push">>
            /\ Count(git_commands, "fetch") <= 1
            /\ Count(git_commands, "rebase") <= 1
            /\ (rejected1 /\ r.fetch = "ok" /\ r.rebase = "fail") =>
                 /\ ret.status = "conflict_unresolved"
                 /\ git_commands = <<"push", "fetch", "rebase">>
            /\ (rejected1 /\ r.fetch = "ok" /\ r.rebase = "ok" /\ r.push2 = "fail") =>
                 /\ ret.status = "conflict_unresolved"
                 /\ git_commands = <<"push", "fetch", "rebase", "push">>
            /\ (rejected1 /\ r.fetch = "ok" /\ r.rebase = "ok" /\ r.push2 = "ok") =>
                 /\ ret.status = "success"
                 /\ git_commands = <<"push", "fetch", "rebase", "push">>

C13_Witness ==
    /\ ret.op = "push"
    /\ ret.run.push1 = "fail"
    /\ ret.run.push2 = "fail"
    /\ git_commands = <<"push", "fetch", "rebase", "push">>
    /\ ret.status = "conflict_unresolved"

(* C14: the agent never makes more than MAX_COMMITS_PER_RUN commits; once
   the budget is reached apply_fix returns False for every further patch,
   changes no file and sets efficiency_penalty_risk. *)
C14_CommitBudget ==
    /\ git_agent.commit_count <= MAX_COMMITS_PER_RUN
    /\ Cardinality(repo.commits) <= MAX_COMMITS_PER_RUN
    /\ (ret.op = "apply_fix" /\ ret.commits_before >= MAX_COMMITS_PER_RUN) =>
         /\ ~ret.applied
         /\ ~ret.files_changed
         /\ git_agent.commit_count = ret.commits_before
         /\ (ret.fix_result.success /\ ret.fix_result.patched_content) =>
               git_agent.efficiency_penalty_risk

C14_Witness ==
    /\ ret.op = "apply_fix"
    /\ ret.commits_before = MAX_COMMITS_PER_RUN
    /\ ret.fix_result.success
    /\ ret.fix_result.patched_content
    /\ ~ret.applied
    /\ git_agent.efficiency_penalty_risk
    /\ Cardinality(repo.commits) = MAX_COMMITS_PER_RUN

(* C15: within one run, a proposal whose fingerprint was already recorded
   for the same bug signature is rejected with REPEATED_FIX and is not
   applied. *)
C15_RepeatRejected ==
    /\ (ret.op = "fix" /\ ret.known /\ PreLLMCheck(ret.inp) = ""
           /\ LLMCheck(ret.inp) = "" /\ ret.inp.diff_size_ok /\ ret.inp.locality_ok) =>
          /\ ~ret.result.success
          /\ ret.result.escalation_reason = REPEATED_FIX
    /\ \A k \in 1..Len(loc.iteration_fixes) :
          loc.iteration_fixes[k].escalation_reason = REPEATED_FIX =>
             /\ ~loc.iteration_fixes[k].success
             /\ loc.iteration_fixes[k].bug_report \notin Range(loc.applied)
             /\ loc.iteration_fixes[k].effectiveness_score = -1

C15_Witness ==
    /\ ret.op = "fix"
    /\ ret.known
    /\ ret.inp.confidence = 9
    /\ ret.result.escalation_reason = REPEATED_FIX
    /\ ret.result.patch_fingerprint \in seen_fingerprints

(* C16: a fingerprint recorded during an earlier run never makes a later
   run on the same Orchestrator and FixAgent reject a proposal as
   REPEATED_FIX. *)
C16_NoCarryOver ==
    \A k \in 1..Len(loc.iteration_fixes) :
        loc.iteration_fixes[k].escalation_reason = REPEATED_FIX =>
            loc.iteration_fixes[k].patch_fingerprint # FirstRunPatch

(* The signatures the store tracks. *)
Tracked(h) == {h.store[k].sig : k \in 1..Len(h.store)}

(* The fingerprints kept for a tracked signature, oldest first (to_list). *)
KeptFor(h, sig) == (CHOOSE e \in Range(h.store) : e.sig = sig).fps

Min(a, b) == IF a <= b THEN a ELSE b

(* C17: for every tracked signature the store holds exactly the most recent
   min(n, per_bug_cap) fingerprints added, in insertion order, n being the
   number of adds since the signature was last inserted. *)
C17_RecentFingerprints ==
    \A sig \in HistorySignatures :
        IF sig \in Tracked(history)
        THEN LET n == Len(Added[sig])
                 m == Min(n, history.per_bug_cap)
             IN  /\ n >= 1
                 /\ KeptFor(history, sig) = SubSeq(Added[sig], n - m + 1, n)
                 /\ get_fingerprints(history, sig) =
                        {Added[sig][k] : k \in (n - m + 1)..n}
        ELSE get_fingerprints(history, sig) = {}

C17_Witness ==
    /\ ret.op = "add"
    /\ history.per_bug_cap = 2
    /\ ret.added[ret.bug_sig] = <<"p", "q", "q">>
    /\ KeptFor(history, ret.bug_sig) = <<"q", "q">>
    /\ Len(ret.inserted) >= 3

(* The tracked signature whose latest insertion is the oldest. *)
LastInsertion(inserted, sig) ==
    CHOOSE k \in 1..Len(inserted) :
        inserted[k] = sig /\ \A j \in (k + 1)..Len(inserted) : inserted[j] # sig

EarliestInserted(h, inserted) ==
    CHOOSE sig \in Tracked(h) :
        \A other \in Tracked(h) :
            LastInsertion(inserted, sig) <= LastInsertion(inserted, other)

(* C18: the store never tracks more than global_cap signatures; adding a
   new signature to a full store evicts exactly the earliest-inserted
   signature, with all its fingerprints. *)
C18_GlobalCap ==
    /\ tracked_signatures(history) <= history.global_cap
    /\ Cardinality(Tracked(history)) = tracked_signatures(history)
    /\ ret.op = "add" =>
          LET before == ret.before
              victim == EarliestInserted(before,
                            SubSeq(ret.inserted, 1, Len(ret.inserted) - 1))
          IN  IF ret.bug_sig \in Tracked(before)
              THEN Tracked(history) = Tracked(before)
              ELSE IF tracked_signatures(before) < before.global_cap
              THEN Tracked(history) = Tracked(before) \cup {ret.bug_sig}
              ELSE /\ Tracked(history) =
                        (Tracked(before) \ {victim}) \cup {ret.bug_sig}
                   /\ get_fingerprints(history, victim) = {}
                   /\ \A sig \in Tracked(before) \ {victim} :
                         KeptFor(history, sig) = KeptFor(before, sig)

C18_Witness ==
    /\ ret.op = "add"
    /\ history.global_cap = 2
    /\ ret.inserted = <<"a", "b", "c", "a">>
    /\ Tracked(ret.before) = {"b", "c"}
    /\ Tracked(history) = {"c", "a"}
    /\ get_fingerprints(history, "b") = {}

(* C19: fix() evaluates merge-conflict, scope, diff-size, locality, repeat
   in this order and the first failing check alone gives the escalation
   reason; a merge-conflict or out-of-scope rejection makes no LLM call. *)
C19_CheckOrder ==
    ret.op = "fix" =>
        LET i == ret.inp
            reason == ret.result.escalation_reason
            answered == ~i.conflict_markers /\ i.in_scope /\ i.llm = "ok"
        IN  /\ i.conflict_markers =>
                  (reason = MERGE_CONFLICT /\ ret.llm_calls = 0)
            /\ (~i.conflict_markers /\ ~i.in_scope) =>
                  (reason = OUT_OF_SCOPE /\ ret.llm_calls = 0)
            /\ (answered /\ ~i.diff_size_ok) => reason = DIFF_TOO_LARGE
            /\ (answered /\ i.diff_size_ok /\ ~i.locality_ok) =>
                  reason = LOCALITY_VIOLATION
            /\ (answered /\ i.diff_size_ok /\ i.locality_ok /\ ret.known) =>
                  reason = REPEATED_FIX
            /\ reason \in {MERGE_CONFLICT, OUT_OF_SCOPE, DIFF_TOO_LARGE,
                           LOCALITY_VIOLATION, REPEATED_FIX} => ~ret.result.success

C19_Witness ==
    /\ ret.op = "fix"
    /\ ret.inp.conflict_markers
    /\ ~ret.inp.in_scope
    /\ ~ret.inp.diff_size_ok
    /\ ~ret.inp.locality_ok
    /\ ret.known
    /\ ret.result.escalation_reason = MERGE_CONFLICT
    /\ ret.llm_calls = 0

(* The closed set, written out. *)
ClosedReasons ==
    {"DIFF_TOO_LARGE", "LOW_CONFIDENCE", "OUT_OF_SCOPE", "LOCALITY_VIOLATION",
     "INVALID_RESPONSE", "REPEATED_FIX", "MERGE_CONFLICT", "LLM_FAILURE"}

(* C20: every fix result with success = FALSE, returned by fix() or recorded
   by the loop, carries one reason of the closed set, never the empty
   string. *)
C20_RejectionHasReason ==
    /\ (ret.op = "fix" /\ ~ret.result.success) =>
          ret.result.escalation_reason \in ClosedReasons
    /\ \A k \in 1..Len(loc.iteration_fixes) :
          ~loc.iteration_fixes[k].success =>
              loc.iteration_fixes[k].escalation_reason \in ClosedReasons

C20_Witness ==
    /\ ret.op = "fix"
    /\ ~ret.result.success
    /\ ret.inp.llm = "ok"
    /\ ~ret.known
    /\ ret.result.escalation_reason = LOW_CONFIDENCE

(* The lines a patch changes: the old lines it removes and the new lines
   it adds, each in its own file's numbering. *)
PatchChanges(r) ==
    (r.first..(r.first + r.removed - 1)) \cup (r.first..(r.first + r.added - 1))

(* C21: a patch is rejected for locality exactly when it changes a line
   outside [failing_line - window, failing_line + window] for the agent's
   configured locality window. *)
C21_LocalityWindow ==
    ret.op = "locality" =>
        (ret.locality_ok <=>
            \A line \in PatchChanges(ret) :
                /\ line >= ret.failing_line - ret.window
                /\ line <= ret.failing_line + ret.window)

(* C22: the bugs submitted for fixing in an iteration are in priority
   order of their types, and bugs of one type are in order of file path
   and then line number, whatever the detectors reported. *)
C22_FixOrder ==
    ret.op = "sort" =>
        \A i \in 1..Len(ret.bugs), j \in 1..Len(ret.bugs) :
            i < j => ByPriorityFileLine(ret.bugs[i], ret.bugs[j])

(* What the two lists are compared by, in this order: the best priority
   tier present (none present ranks after every tier), the number of
   bugs at that tier, the number of signatures. *)
Tiers(bugs) == {priority_of(bugs[k].bug_type) : k \in 1..Len(bugs)}
BestTier(bugs) ==
    IF Tiers(bugs) = {} THEN 999
    ELSE CHOOSE t \in Tiers(bugs) : \A u \in Tiers(bugs) : t <= u
BugsAt(bugs, tier) == Cardinality({b \in Range(bugs) : priority_of(b.bug_type) = tier})

ComparedOutcome(prev, curr) ==
    IF BestTier(curr) # BestTier(prev)
    THEN IF BestTier(curr) > BestTier(prev) THEN "improved" ELSE "regressed"
    ELSE IF BugsAt(curr, BestTier(curr)) # BugsAt(prev, BestTier(prev))
    THEN IF BugsAt(curr, BestTier(curr)) < BugsAt(prev, BestTier(prev))
         THEN "improved" ELSE "regressed"
    ELSE IF Cardinality(SigSet(curr)) <= Cardinality(SigSet(prev))
         THEN "improved" ELSE "regressed"

(* C23: the classifier returns unchanged exactly when the two signature
   sets are identical, and otherwise improved or regressed by the best
   tier present, then the number of bugs at that tier, then the number of
   signatures (smaller or equal is improved). *)
C23_Classifier ==
    ret.op = "classify" =>
        IF SigSet(ret.prev_bugs) = SigSet(ret.curr_bugs)
        THEN ret.outcome = "unchanged"
        ELSE ret.outcome = ComparedOutcome(ret.prev_bugs, ret.curr_bugs)

(* Reached: one syntax bug replaced by another syntax bug and a lint bug,
   so that only the number of signatures decides. *)
C23_Witness ==
    /\ ret.op = "classify"
    /\ ret.prev_bugs = <<SyntaxBug>>
    /\ ret.curr_bugs = <<SyntaxBugApp, LintBug>>
    /\ ret.outcome = "regressed"

(* The score of a signature, in tenths: resolved, unchanged, drifted. *)
ExpectedScore(sig, pre_sigs, post_sigs) ==
    CASE sig \in pre_sigs /\ sig \notin post_sigs -> 10
      [] sig \in pre_sigs /\ sig \in post_sigs -> 0
      [] OTHER -> 5

(* C24: every accepted fix is scored exactly once, in the step that
   re-executes the build for the confidence gate, with 1.0 if its
   signature is in the pre-fix set and not in the post-fix set, 0.0 if it
   is in both, and 0.5 otherwise; the score never changes afterwards. *)
C24_ScoredOnce ==
    [][/\ ret'.op = "score" =>
             ret'.score = ExpectedScore(ret'.sig, ret'.pre_sigs, ret'.post_sigs)
       /\ \A k \in 1..Len(loc'.iteration_fixes) :
             loc'.iteration_fixes[k].effectiveness_score # -1 =>
                /\ k <= Len(loc.iteration_fixes)
                /\ \/ loc.iteration_fixes[k] = loc'.iteration_fixes[k]
                   \/ /\ pc = "verify"
                      /\ calls'["verify"] = calls["verify"] + 1
                      /\ loc.iteration_fixes[k].effectiveness_score = -1
                      /\ loc'.iteration_fixes[k].success
                      /\ loc'.iteration_fixes[k].effectiveness_score =
                            ExpectedScore(
                               generate_bug_signature(loc'.iteration_fixes[k].bug_report),
                               SigSet(loc.bugs), SigSet(loc'.post_fix_bugs))
       /\ (pc = "verify" /\ calls'["verify"] = calls["verify"] + 1 /\ exc' # "verify") =>
             \A k \in 1..Len(loc'.iteration_fixes) :
                loc'.iteration_fixes[k].success =>
                   loc'.iteration_fixes[k].effectiveness_score # -1
      ]_vars

(* Reached: after the re-execution one accepted fix of the iteration is
   scored 1.0 and another 0.0. *)
C24_Witness ==
    /\ calls["verify"] > 0
    /\ \E j \in 1..Len(loc.iteration_fixes), k \in 1..Len(loc.iteration_fixes) :
          /\ loc.iteration_fixes[j].success
          /\ loc.iteration_fixes[j].effectiveness_score = 10
          /\ loc.iteration_fixes[k].success
          /\ loc.iteration_fixes[k].effectiveness_score = 0

(* C28: the jobs evaluated never include a job whose name carries an
   ignore keyword, as long as the run has a job without such a keyword. *)
C28_IgnoredJobsDropped ==
    (/\ ret.op = "_filter_jobs"
     /\ \E k \in 1..Len(ret.jobs) : ~Ignored(ret.jobs[k].name))
    => \A k \in 1..Len(ret.filtered_items) : ~Ignored(ret.filtered_items[k].name)

PollResults ==
    {"completed_success", "completed_failure", "stalled", "ci_error", "unknown_timeout"}

(* C25: a poll returns within its overall timeout, with one of the five
   results, and with unknown_timeout only when the polling window is
   used up without a terminal observation. *)
C25_PollTerminates ==
    (ret.op = "poll" /\ pc = "CIMonitor.returned") =>
        /\ ret.returned \in PollResults
        /\ ret.elapsed <= ret.timeout
        /\ ret.returned = "unknown_timeout" =>
              (ret.observed # "" /\ ret.elapsed >= ret.timeout)

(* C26: stalled is returned only after 7 consecutive polls that each
   observed in progress; a poll that observes queued or fails with a
   transient error restarts the count. *)
C26_StalledAfterSeven ==
    (ret.op = "poll" /\ ret.returned = "stalled") => ret.in_progress_run >= 7

(* C27: a 4xx response ends polling at once with ci_error, and nothing
   else does; a 5xx response is followed by a wait and another pass of
   the loop, never by ci_error. *)
C27_HttpErrors ==
    [][(pc = "CIMonitor._poll_url" /\ ret.elapsed < ret.timeout) =>
          /\ ret'.status_code \in 400..499 =>
                /\ ret'.returned = "ci_error"
                /\ pc' = "CIMonitor.returned"
                /\ ret'.elapsed - ret.elapsed \in Latencies
          /\ ret'.status_code \in 500..599 =>
                /\ ret'.returned = ""
                /\ pc' = "CIMonitor._poll_url"
                /\ ret'.elapsed >= ret.elapsed + Sec(10)
          /\ ret'.returned = "ci_error" => ret'.status_code \in 400..499
      ]_vars

(* Reached: a 503, the wait of ten seconds, then a 404 that ends the poll. *)
C27_Witness ==
    /\ pc = "CIMonitor.returned"
    /\ ret.returned = "ci_error"
    /\ ret.status_code = 404
    /\ ret.elapsed = Sec(10)

(* C29: a provider that reached PROVIDER_COOLDOWN_THRESHOLD consecutive
   failures is not returned by any of the next PROVIDER_COOLDOWN_SKIP_COUNT
   calls of get_provider while another provider is healthy. *)
C29_CooldownSkips ==
    (ret.op = "router" /\ ret.last = "get_provider") =>
        \A p \in ProviderNames :
            (/\ ret.since[p] \in 1..PROVIDER_COOLDOWN_SKIP_COUNT
             /\ \E q \in ProviderNames \ {p} : ret.health[q].is_healthy)
            => ret.provider # p

FixedOrder == <<"groq", "gemini", "openrouter">>

(* C30: get_provider returns the first provider of groq, gemini,
   openrouter that is healthy at the call, and groq when none is. *)
C30_FirstHealthy ==
    (ret.op = "router" /\ ret.last = "get_provider") =>
        \/ /\ \A k \in 1..3 : ~ret.health[FixedOrder[k]].is_healthy
           /\ ret.provider = FixedOrder[1]
        \/ \E k \in 1..3 :
              /\ ret.provider = FixedOrder[k]
              /\ ret.health[FixedOrder[k]].is_healthy
              /\ \A j \in 1..(k - 1) : ~ret.health[FixedOrder[j]].is_healthy

(* Reached: groq in cooldown, gemini returned. *)
C30_Witness ==
    /\ ret.op = "router"
    /\ ret.last = "get_provider"
    /\ ~ret.health["groq"].is_healthy
    /\ ret.health["gemini"].is_healthy
    /\ ret.provider = "gemini"

(* C40: a provider is marked unhealthy exactly when its remaining
   cooldown count is greater than zero. *)
C40_UnhealthyIffCooldown ==
    ret.op = "router" =>
        \A p \in ProviderNames :
            ~ret.health[p].is_healthy <=> ret.health[p].cooldown_remaining > 0

(* Reached: a success reported for a provider in the middle of its
   cooldown leaves it unhealthy. *)
C40_Witness ==
    /\ ret.op = "router"
    /\ ret.last = "report_success"
    /\ ~ret.health["groq"].is_healthy
    /\ ret.health["groq"].cooldown_remaining = 3
    /\ ret.health["groq"].consecutive_failures = 0

(* C34: the signature depends on (file_path, line_number, sub_type) only,
   and two bugs that differ in one of the three fields have different
   signatures. *)
C34_SignatureInjective ==
    ret.op = "signature" =>
        /\ ret.sig_a = ret.sig_a_again
        /\ (ret.sig_a = ret.sig_b) <=> (ret.a = ret.b)

(* Reached: file "a1" line 1 and file "a" line 11, which read alike
   without the separators, have different signatures. *)
C34_Witness ==
    /\ ret.op = "signature"
    /\ ret.a.file_path = <<"a", "1">> /\ ret.a.line_number = 1
    /\ ret.b.file_path = <<"a">> /\ ret.b.line_number = 11
    /\ ret.a.sub_type = ret.b.sub_type
    /\ ret.sig_a # ret.sig_b

SeverityOrder == <<"SYNTAX", "IMPORT", "TYPE_ERROR", "INDENTATION", "LOGIC", "LINTING">>
SeverityRank(t) == CHOOSE k \in 1..Len(SeverityOrder) : SeverityOrder[k] = t
(* The rank of the most severe type of the list; a list without bugs ranks
   after every type. *)
BestSeverity(types) ==
    LET ranks == {SeverityRank(types[k]) : k \in 1..Len(types)}
    IN  IF ranks = {} THEN Len(SeverityOrder) + 1
        ELSE CHOOSE r \in ranks : \A s \in ranks : r <= s

(* C35: the priority delta is positive, and should_commit_by_priority
   returns true, exactly when the best tier of the current list is less
   severe than the best tier of the previous list under the order SYNTAX,
   IMPORT, TYPE_ERROR, INDENTATION, LOGIC, LINTING. *)
C35_PriorityDelta ==
    ret.op = "should_commit_by_priority" =>
        LET improved == BestSeverity(ret.current) > BestSeverity(ret.previous)
        IN  /\ (ret.commit_priority_delta > 0) <=> improved
            /\ ret.returned <=> improved

(* C36: the CI status is polled in an iteration only if that iteration's
   push completed with status success; after a refused or failed push, or
   an exception raised by push, no poll is made. *)
C36_PollOnlyAfterSuccess ==
    pc = "poll" => (git_agent.push_status = "success" /\ exc # "push")

(* C37: when the poll of a pushed commit ends as stalled or as timed out,
   the run sets ci_stalled_flag, records a CI run entry for the iteration
   and goes on to the next iteration. *)
C37_StallContinues ==
    [][(pc = "poll" /\ loc'.ci_status \in {"stalled", "unknown_timeout"}) =>
          /\ state'.ci_stalled_flag
          /\ state'.ci_runs = Append(state.ci_runs, [iteration |-> state.iteration])
          /\ pc' = "iter"]_vars

(* C38: every call of the fix generator is for a signature with fewer
   than PER_BUG_RETRY_LIMIT attempts so far and counts as one attempt, so a
   signature is submitted at most PER_BUG_RETRY_LIMIT times in a run; the
   signature was not submitted earlier in the iteration and is not one a
   fix was rejected for in the iteration. *)
C38_RetryLimit ==
    [][(pc = "fix" /\ calls'["fix"] # calls["fix"]) =>
          LET sig == generate_bug_signature(loc.bugs[loc.idx])
          IN  /\ calls'["fix"] = calls["fix"] + 1
              /\ bug_attempts[sig] < PER_BUG_RETRY_LIMIT
              /\ bug_attempts'[sig] = bug_attempts[sig] + 1
              /\ \A other \in DOMAIN bug_attempts \ {sig} :
                     bug_attempts'[other] = bug_attempts[other]
              /\ sig \notin loc.escalated_signatures
              /\ \A k \in 1..(loc.idx - 1) :
                     generate_bug_signature(loc.bugs[k]) # sig]_vars

(* Reached: in the second iteration a bug that used up its attempts in the
   first is skipped without a call of the generator. *)
C38_Witness ==
    /\ pc \in {"fix", "verify"}
    /\ state.iteration = 2
    /\ loc.idx = 2
    /\ loc.iteration_fixes = <<>>
    /\ generate_bug_signature(loc.bugs[1]) \in loc.escalated_signatures
    /\ bug_attempts[generate_bug_signature(loc.bugs[1])] = PER_BUG_RETRY_LIMIT
    /\ calls["fix"] = 0

SnapshotIterations == {state.snapshots[k].iteration : k \in 1..Len(state.snapshots)}
GuardrailStopped ==
    state.execution_summary = "Stopped: 5-minute performance guardrail reached."

(* C39: the snapshots have strictly increasing iteration numbers, so at
   most one per iteration; when run() has returned with a status other
   than error, every started iteration has a snapshot except one stopped
   by the guardrail. *)
C39_OneSnapshotPerIteration ==
    /\ \A k \in 1..(Len(state.snapshots) - 1) :
           state.snapshots[k].iteration < state.snapshots[k + 1].iteration
    /\ SnapshotIterations \subseteq 1..state.iteration
    /\ (pc = "returned" /\ state.status # "error") =>
           SnapshotIterations =
               (1..state.iteration) \ (IF GuardrailStopped THEN {state.iteration} ELSE {})

(* Reached: a run returns from a second iteration stopped by the
   guardrail, with the snapshot of the first iteration only. *)
C39_Witness ==
    /\ pc = "returned"
    /\ state.status = "exhausted"
    /\ GuardrailStopped
    /\ state.iteration = 2
    /\ SnapshotIterations = {1}

(* C31: when the hard deadline expires during a run, the result carries
   the iterations completed, the snapshots and the commits made so far,
   and a push is attempted when committed work is not yet pushed. *)
C31_PartialState ==
    pc = "timeout" =>
        /\ ret.state.iteration = state.iteration
        /\ ret.state.snapshots = state.snapshots
        /\ ret.state.commit_count = state.commit_count
        /\ ret.unpushed # {} => ret.push_attempted

(* C32: the final state of a run depends on the collaborators' responses
   only, on a fresh Orchestrator and on one that has run before.  A run
   that ends in its first iteration without error returns as commit_count
   the number of fixes it committed, which is what a fresh instance
   returns for these responses. *)
C32_SameFinalState ==
    (pc = "returned" /\ state.iteration = 1 /\ state.status # "error") =>
        state.commit_count = Len(loc.applied)

(* C33: a run's returned state is its own, and the results document a
   returned run has written is still there, not overwritten by the run
   on the other repository. *)
C33_RunsIsolated ==
    ret.op = "concurrent" =>
        \A r \in RunIds :
            /\ ret.runs[r].state.repo_url = RepoUrls[r]
            /\ ret.runs[r].pc = "returned" =>
                   \E f \in ret.files :
                       /\ f.repository.url = RepoUrls[r]
                       /\ f.iterations = ret.runs[r].state.iteration
                       /\ f.final_results.status = ret.runs[r].state.status

====
